---- MODULE Spec2Model ----
(***************************************************************************)
(* Study-Buddy: the session-aware retrieval-and-generation engine.         *)
(*                                                                         *)
(*   backend/app/utils/rate_limiter.py     RateLimiter, async_rate_limited *)
(*   backend/app/services/vector_store.py  EnhancedVectorStoreService      *)
(*   backend/app/services/rag_service.py   EnhancedRAGService              *)
(*                                                                         *)
(* Time is an integer clock (one unit = one second of time.time()).        *)
(* Strings whose content matters are sequences of one-character strings.   *)
(***************************************************************************)
EXTENDS Integers, Sequences, FiniteSets, TLC

VARIABLES
    calls,      \* gemini_limiter.calls: the recorded timestamps, in append order
    now,        \* time.time()
    hist,       \* history: every timestamp add_call() ever recorded (never pruned)
    last,       \* the limiter method called last, and what it returned
    store,      \* the chunk collection of the vector store, in insertion order
    sres,       \* the search in progress: its arguments and what it returned
    pk,         \* context assembly: the re-ranked results given, and the context built
    sg,         \* sentence streaming: the provider's text, how much of it has
                \* arrived, the buffer and the response contents emitted
    pc,         \* generate_response: where the request is suspended
    events,     \* generate_response: the events yielded so far
    req,        \* generate_response: the request's arguments and local variables
    svc,        \* EnhancedRAGService: current_provider, and whether gemini_model is set
    cnt,        \* per request: add_call() records made, provider calls issued,
                \* the hybrid searches made and the provider streams started
    gate,       \* concurrent requests: where each one stands with the limiter
    rk,         \* retrieval and re-ranking: the store's results and the re-ranked list
    lk,         \* _get_session_document_filter: the session looked up and the answer
    ad,         \* add_documents: the texts, the batch in progress and the outcome
    fin,        \* the end of a stream: the re-ranked results and the events emitted
    lim,        \* a RateLimiter of any configuration: max_calls, period, calls,
                \* the clock and what the method called last returned
    tx,         \* _re_rank_results on texts: the question, the results, the answer
    prov        \* concurrent requests and set_provider: current_provider, and
                \* each request's local provider and the model it obtained

limVars == <<calls, now, hist>>
rlVars == <<last>>
searchVars == <<store, sres>>
packVars == <<pk>>
segVars == <<sg>>
genVars == <<pc, events, req, svc, cnt>>
gateVars == <<gate>>
extraVars == <<rk, lk, ad, fin>>
moreVars == <<lim, tx, prov>>
vars ==
    <<calls, now, hist, last, store, sres, pk, sg, pc, events, req, svc, cnt, gate,
      rk, lk, ad, fin, lim, tx, prov>>
\* what each specification leaves alone
notLimiter == <<searchVars, packVars, segVars, genVars, gateVars, extraVars, moreVars>>
notSearch == <<limVars, rlVars, packVars, segVars, genVars, gateVars, extraVars, moreVars>>
notPack == <<limVars, rlVars, searchVars, segVars, genVars, gateVars, extraVars, moreVars>>
notSeg == <<limVars, rlVars, searchVars, packVars, genVars, gateVars, extraVars, moreVars>>
notGen == <<hist, last, sres, pk, gate, extraVars, moreVars>>
notGate == <<hist, last, searchVars, packVars, segVars, genVars, extraVars, moreVars>>
\* all but one variable, for the specifications of a single operation
notRank ==
    <<limVars, rlVars, searchVars, packVars, segVars, genVars, gateVars, lk, ad, fin,
      moreVars>>
notLookup ==
    <<limVars, rlVars, searchVars, packVars, segVars, genVars, gateVars, rk, ad, fin,
      moreVars>>
notAdd ==
    <<calls, hist, rlVars, sres, packVars, segVars, genVars, gateVars, rk, lk, fin,
      moreVars>>
notFin ==
    <<limVars, rlVars, searchVars, packVars, segVars, genVars, gateVars, rk, lk, ad,
      moreVars>>
allButLim ==
    <<limVars, rlVars, searchVars, packVars, segVars, genVars, gateVars, extraVars,
      tx, prov>>
allButTx ==
    <<limVars, rlVars, searchVars, packVars, segVars, genVars, gateVars, extraVars,
      lim, prov>>
allButProv ==
    <<limVars, rlVars, searchVars, packVars, segVars, genVars, gateVars, extraVars,
      lim, tx>>

(***************************************************************************)
(* Bounds of the model.                                                    *)
(***************************************************************************)
\* RateLimiter(max_calls, period): the instance checked (gemini_limiter is 15 / 60)
MaxCalls == 2
Period == 3
\* the clock stops here
MaxTime == 6
\* add_call() records at most this many calls in one behaviour
MaxAdds == 4

(***************************************************************************)
(* Helpers on sequences.                                                   *)
(***************************************************************************)
RECURSIVE SelectSeqBy(_, _)
\* [x for x in s if Keep[x]] for a set Keep of kept values
SelectSeqBy(s, Keep) ==
    IF s = <<>> THEN <<>>
    ELSE IF Head(s) \in Keep
         THEN <<Head(s)>> \o SelectSeqBy(Tail(s), Keep)
         ELSE SelectSeqBy(Tail(s), Keep)

Range(s) == {s[i] : i \in DOMAIN s}

SetMin(S) == CHOOSE x \in S : \A y \in S : x <= y

(***************************************************************************)
(* RateLimiter                                                             *)
(***************************************************************************)
\* a plausible slip: an entry exactly one period old is still kept
cleanup_old_calls_inclusive(cs, t) ==
    SelectSeqBy(cs, {c \in Range(cs) : t - c <= Period})

\* _cleanup_old_calls: keep the timestamps younger than the period
cleanup_old_calls(cs, t) ==
    SelectSeqBy(cs, {c \in Range(cs) : t - c < Period})

\* can_make_call: prunes, then compares; the pruned list is what stays stored
can_make_call(cs, t) ==
    LET kept == cleanup_old_calls(cs, t)
    IN  [calls |-> kept, ret |-> Len(kept) < MaxCalls]

\* add_call: append the current time
add_call(cs, t) == Append(cs, t)

\* time_until_available: 0 if admittable, else oldest + period - now.
\* min() of an empty list raises ValueError: raised |-> TRUE
time_until_available(cs, t) ==
    LET c == can_make_call(cs, t)
        kept == cleanup_old_calls(c.calls, t)
    IN  IF c.ret THEN [calls |-> c.calls, raised |-> FALSE, ret |-> 0]
        ELSE IF kept = <<>> THEN [calls |-> kept, raised |-> TRUE, ret |-> 0]
        ELSE [calls |-> kept, raised |-> FALSE,
              ret |-> SetMin(Range(kept)) + Period - t]

(***************************************************************************)
(* SpecLimiter: one RateLimiter driven by any sequence of add_call,        *)
(* can_make_call, time_until_available and clock advances.                 *)
(***************************************************************************)
NoOp == [op |-> "none", ret |-> 0, raised |-> FALSE]

\* the variables of the search, when no search is modelled
SearchOff ==
    /\ store = <<>>
    /\ sres = [st |-> "off"]

PackOff == pk = [st |-> "off"]
RankOff == rk = [st |-> "off"]
LookupOff == lk = [st |-> "off"]
AddOff == ad = [st |-> "off"]
FinOff == fin = [st |-> "off"]
ExtraOff == RankOff /\ LookupOff /\ AddOff /\ FinOff
ConfigOff == lim = [st |-> "off"]
TextOff == tx = [st |-> "off"]
ProvOff == prov = [st |-> "off"]
MoreOff == ConfigOff /\ TextOff /\ ProvOff
SegOff == sg = [st |-> "off"]
GenOff ==
    /\ pc = "off"
    /\ events = <<>>
    /\ req = [st |-> "off"]
    /\ svc = [st |-> "off"]
    /\ cnt = [st |-> "off"]
    /\ gate = <<>>

LimInit ==
    /\ calls = <<>>
    /\ now = 0
    /\ hist = <<>>
    /\ last = NoOp
    /\ SearchOff
    /\ PackOff
    /\ SegOff
    /\ GenOff
    /\ MoreOff
    /\ ExtraOff

Tick ==
    /\ now < MaxTime
    /\ now' = now + 1
    /\ last' = [op |-> "tick", ret |-> 0, raised |-> FALSE]
    /\ UNCHANGED <<calls, hist, notLimiter>>

AddCall ==
    /\ Len(hist) < MaxAdds
    /\ calls' = add_call(calls, now)
    /\ hist' = Append(hist, now)
    /\ last' = [op |-> "add_call", ret |-> 0, raised |-> FALSE]
    /\ UNCHANGED <<now, notLimiter>>

CanMakeCall ==
    LET r == can_make_call(calls, now)
    IN  /\ calls' = r.calls
        /\ last' = [op |-> "can_make_call", ret |-> r.ret, raised |-> FALSE]
        /\ UNCHANGED <<now, hist, notLimiter>>

TimeUntilAvailable ==
    LET r == time_until_available(calls, now)
    IN  /\ calls' = r.calls
        /\ last' = [op |-> "time_until_available", ret |-> r.ret, raised |-> r.raised]
        /\ UNCHANGED <<now, hist, notLimiter>>

LimNext == Tick \/ AddCall \/ CanMakeCall \/ TimeUntilAvailable

SpecLimiter == LimInit /\ [][LimNext]_vars

\* the calls recorded inside the trailing window that ends at time t
InWindow(t) == {i \in DOMAIN hist : t - hist[i] < Period}

\* C6: can_make_call() answers true exactly when fewer than max_calls of the
\* calls ever recorded lie inside the trailing period: false after max_calls
\* add_call() inside one period, true again once the oldest has aged out.
C6_CanMakeCallIffWindowOpen ==
    last.op = "can_make_call" =>
        (last.ret <=> Cardinality(InWindow(now)) < MaxCalls)

\* the gate closed (max_calls recorded) and has reopened after the period
C6_Witness_Reopened ==
    /\ last.op = "can_make_call"
    /\ last.ret = TRUE
    /\ Len(hist) >= MaxCalls
    /\ calls # hist

\* the gate is found closed
C6_Witness_Closed ==
    /\ last.op = "can_make_call"
    /\ last.ret = FALSE

(***************************************************************************)
(* The chunk store.                                                        *)
(*                                                                         *)
(* A stored chunk is [id, metadata, dist, content]: dist is the distance   *)
(* the index reports between the chunk and the query, in hundredths.       *)
(* A Python dict is a function from its keys; a filter value is            *)
(* [tag |-> "str", v |-> s] for a string s and [tag |-> "in", v |-> list]  *)
(* for {"$in": list}. Optional[List[str]] None is the empty list: the code *)
(* only tests its truth value.                                             *)
(***************************************************************************)
\* documents (uuid_filename values), distances, and the sizes searched
Docs == {"A", "B", "C"}
Dists == {20, 150}
MaxChunks == 3
MaxK == 3

FileTypeOf(d) == IF d = "C" THEN "txt" ELSE "pdf"

\* the metadata document_processor attaches to every chunk of document d
DocMeta(d) ==
    [uuid_filename |-> d, filename |-> d, file_type |-> FileTypeOf(d),
     document_id |-> d]

Str(s) == [tag |-> "str", v |-> s]
InSet(l) == [tag |-> "in", v |-> l]
EmptyDict == [key \in {} |-> Str("")]
Dict1(key, val) == [x \in {key} |-> val]
Min(a, b) == IF a < b THEN a ELSE b

\* s[:n]
Take(s, n) == IF n >= Len(s) THEN s ELSE SubSeq(s, 1, n)

RECURSIVE InsertByScore(_, _)
\* insert after every element whose score is <= x.score (a stable sort's step)
InsertByScore(sorted, x) ==
    IF sorted = <<>> THEN <<x>>
    ELSE IF Head(sorted).score <= x.score
         THEN <<Head(sorted)>> \o InsertByScore(Tail(sorted), x)
         ELSE <<x>> \o sorted

RECURSIVE SortByScore(_)
\* list.sort(key=lambda x: x[1]): ascending and stable
SortByScore(s) ==
    IF s = <<>> THEN <<>>
    ELSE InsertByScore(SortByScore(SubSeq(s, 1, Len(s) - 1)), s[Len(s)])

\* a slip: the where-clause is not applied
Matches_ignored(c, f) == TRUE

\* whether the index's where-clause f (equality on every key) admits chunk c
Matches(c, f) ==
    \A key \in DOMAIN f : f[key].tag = "str" /\ c.metadata[key] = f[key].v

RECURSIVE PairsOf(_, _)
PairsOf(st, f) ==
    IF st = <<>> THEN <<>>
    ELSE IF Matches(Head(st), f)
         THEN <<[doc |-> Head(st), score |-> Head(st).dist]>> \o PairsOf(Tail(st), f)
         ELSE PairsOf(Tail(st), f)

\* Chroma's similarity_search_with_score(query, k, filter): the k nearest
\* matching chunks as (doc, distance), nearest first
similarity_search_with_score(st, k, f) == Take(SortByScore(PairsOf(st, f)), k)

\* a slip: similarity taken as 1 - distance
Similarity_complement(score) == 100 - score

\* distance to similarity: a score above 1.0 is taken for a distance
Similarity(score) == IF score > 100 THEN 10000 \div (100 + score) ELSE score

RECURSIVE Normalize(_)
\* the loop that builds search_results from (doc, score) pairs
Normalize(pairs) ==
    IF pairs = <<>> THEN <<>>
    ELSE <<[content |-> Head(pairs).doc.content,
            metadata |-> Head(pairs).doc.metadata,
            score |-> Similarity(Head(pairs).score),
            id |-> Head(pairs).doc.id]>> \o Normalize(Tail(pairs))

\* a slip: only the first id of the list is queried
InSetResults_first_only(st, k, rest, uuid_list, bad) ==
    IF uuid_list = <<>> \/ Head(uuid_list) \in bad THEN <<>>
    ELSE similarity_search_with_score(st, k,
            [key \in DOMAIN rest \cup {"uuid_filename"} |->
                IF key = "uuid_filename" THEN Str(Head(uuid_list)) ELSE rest[key]])

RECURSIVE InSetResults(_, _, _, _, _)
\* the loop over uuid_list: one filtered query per id, concatenated; a query
\* that raises is logged and skipped
InSetResults(st, k, rest, uuid_list, bad) ==
    IF uuid_list = <<>> THEN <<>>
    ELSE LET single_filter == [key \in DOMAIN rest \cup {"uuid_filename"} |->
                                  IF key = "uuid_filename" THEN Str(Head(uuid_list))
                                  ELSE rest[key]]
             single_results == IF Head(uuid_list) \in bad THEN <<>>
                               ELSE similarity_search_with_score(st, k, single_filter)
         IN  single_results \o InSetResults(st, k, rest, Tail(uuid_list), bad)

Raise(kind) == [raised |-> TRUE, kind |-> kind, results |-> <<>>, queried |-> TRUE]
Return(rs, q) == [raised |-> FALSE, kind |-> "", results |-> rs, queried |-> q]

\* whether a query of the index with where-clause f raises under fault
QueryFails(f, fault) ==
    IF "uuid_filename" \in DOMAIN f /\ f["uuid_filename"].tag = "str"
    THEN f["uuid_filename"].v \in fault.bad
    ELSE "*" \in fault.bad

\* a slip: the in-set merge is not truncated (all_results instead of all_results[:k])
similarity_search_untruncated(st, k0, filter_dict, fault) ==
    LET total_docs == Len(st)
        k == Min(k0, total_docs)
    IN  IF total_docs = 0 THEN Return(<<>>, FALSE)
        ELSE IF DOMAIN filter_dict # {}
                /\ "uuid_filename" \in DOMAIN filter_dict
                /\ filter_dict["uuid_filename"].tag = "in"
        THEN LET rest == [key \in DOMAIN filter_dict \ {"uuid_filename"} |-> filter_dict[key]]
                 all_results == InSetResults(st, k, rest,
                                    filter_dict["uuid_filename"].v, fault.bad)
             IN  Return(Normalize(SortByScore(all_results)), TRUE)
        ELSE IF QueryFails(filter_dict, fault) THEN Raise(fault.kind)
        ELSE Return(Normalize(similarity_search_with_score(st, k, filter_dict)), TRUE)

\* EnhancedVectorStoreService.similarity_search
similarity_search(st, k0, filter_dict, fault) ==
    LET total_docs == Len(st)
        k == Min(k0, total_docs)
    IN  IF total_docs = 0 THEN Return(<<>>, FALSE)
        ELSE IF DOMAIN filter_dict # {}
                /\ "uuid_filename" \in DOMAIN filter_dict
                /\ filter_dict["uuid_filename"].tag = "in"
        THEN LET rest == [key \in DOMAIN filter_dict \ {"uuid_filename"} |-> filter_dict[key]]
                 all_results == InSetResults(st, k, rest,
                                    filter_dict["uuid_filename"].v, fault.bad)
             IN  Return(Normalize(Take(SortByScore(all_results), k)), TRUE)
        ELSE IF QueryFails(filter_dict, fault) THEN Raise(fault.kind)
        ELSE Return(Normalize(similarity_search_with_score(st, k, filter_dict)), TRUE)

\* a slip: the session filter is dropped when it names several documents
hybrid_filter_single_only(session_document_filter, extracted) ==
    IF Len(session_document_filter) = 1
    THEN Dict1("uuid_filename", Str(session_document_filter[1]))
    ELSE extracted

\* a slip: the extracted filters are added to the session filter
hybrid_filter_merged(session_document_filter, extracted) ==
    IF session_document_filter # <<>>
    THEN [key \in DOMAIN extracted \cup {"uuid_filename"} |->
             IF key # "uuid_filename" THEN extracted[key]
             ELSE IF Len(session_document_filter) = 1
             THEN Str(session_document_filter[1])
             ELSE InSet(session_document_filter)]
    ELSE extracted

\* _perform_hybrid_search, lines 336 and 350-353: _extract_query_metadata is
\* called only in the else branch
extraction_attempted(session_document_filter) == session_document_filter = <<>>

\* _perform_hybrid_search, lines 333-357: the metadata filter. extracted is
\* what _extract_query_metadata returned ({} when nothing was extracted)
hybrid_filter(session_document_filter, extracted) ==
    IF session_document_filter # <<>>
    THEN IF Len(session_document_filter) = 1
         THEN Dict1("uuid_filename", Str(session_document_filter[1]))
         ELSE Dict1("uuid_filename", InSet(session_document_filter))
    ELSE extracted

\* a slip: the index is queried before the store is found empty
perform_hybrid_search_unguarded(st, k, session_document_filter, extracted, fault) ==
    IF "*" \in fault.bad THEN Raise(fault.kind)
    ELSE similarity_search(st, k, hybrid_filter(session_document_filter, extracted), fault)

\* _perform_hybrid_search, lines 359-381: the search; an exception is re-raised
perform_hybrid_search(st, k, session_document_filter, extracted, fault) ==
    similarity_search(st, k, hybrid_filter(session_document_filter, extracted), fault)

(***************************************************************************)
(* SpecSearch: chunks are added to and deleted from the store, and         *)
(* _perform_hybrid_search is called with any k, scope, extracted filter    *)
(* and index fault.                                                        *)
(***************************************************************************)
MaxScope == 2

RECURSIVE SeqsUpTo(_, _)
\* the sequences over S of length at most n
SeqsUpTo(S, n) ==
    IF n = 0 THEN {<<>>}
    ELSE LET shorter == SeqsUpTo(S, n - 1)
         IN  shorter \cup {Append(q, x) : q \in shorter, x \in S}

\* what _extract_query_metadata can hand back
ExtractedFilters ==
    {EmptyDict, Dict1("file_type", Str("pdf")), Dict1("filename", Str("A"))}

NoFault == [bad |-> {}, kind |-> ""]
\* the index failing on the queries for one document, or on every query
Faults ==
    {NoFault, [bad |-> {"A"}, kind |-> "other"],
     [bad |-> Docs \cup {"*"}, kind |-> "rate_limit"]}

\* a chunk's text is its length in characters and, for the question asked,
\* the numbers of question terms found in it and in its first paragraph
NewChunk(st, d, x) ==
    [id |-> Len(st) + 1, metadata |-> DocMeta(d), dist |-> x,
     content |-> [len |-> 40, keyword_matches |-> 0, first_para_matches |-> 0]]

LimiterOff ==
    /\ calls = <<>>
    /\ now = 0
    /\ hist = <<>>
    /\ last = NoOp

SearchInit ==
    /\ store = <<>>
    /\ sres = [st |-> "idle"]
    /\ LimiterOff
    /\ PackOff
    /\ SegOff
    /\ GenOff
    /\ MoreOff
    /\ ExtraOff

\* add_texts: one chunk enters the collection
AddTexts ==
    /\ sres.st = "idle"
    /\ Len(store) < MaxChunks
    /\ \E d \in Docs, x \in Dists : store' = Append(store, NewChunk(store, d, x))
    /\ UNCHANGED <<sres, notSearch>>

\* ex is what the provider would extract from the question; the question
\* names a filter when ex is not empty
HybridSearch ==
    /\ sres.st = "idle"
    /\ \E k \in 1..MaxK, sdf \in SeqsUpTo(Docs, MaxScope), fault \in Faults :
      \E ex \in ExtractedFilters :
          sres' = [st |-> "done", k |-> k, sdf |-> sdf,
                   keywords |-> ex # EmptyDict,
                   extracted |-> extraction_attempted(sdf),
                   filter |-> hybrid_filter(sdf, ex), fault |-> fault,
                   out |-> perform_hybrid_search(store, k, sdf, ex, fault)]
    /\ UNCHANGED <<store, notSearch>>

SearchReturn ==
    /\ sres.st = "done"
    /\ sres' = [st |-> "idle"]
    /\ UNCHANGED <<store, notSearch>>

SearchNext == AddTexts \/ HybridSearch \/ SearchReturn

SpecSearch == SearchInit /\ [][SearchNext]_vars

\* C3: scope containment. A hybrid search given a non-empty session document
\* list returns only chunks whose uuid_filename is in that list, whatever the
\* store holds and whatever k is.
C3_ScopeContainment ==
    (sres.st = "done" /\ sres.sdf # <<>>) =>
        \A i \in DOMAIN sres.out.results :
            sres.out.results[i].metadata.uuid_filename \in Range(sres.sdf)

\* a scoped search over several documents returned chunks while the store
\* held a nearer chunk of a document outside the scope
C3_Witness_NearerOutsider ==
    /\ sres.st = "done"
    /\ Len(sres.sdf) = 2
    /\ Len(sres.out.results) = 2
    /\ \E i \in DOMAIN store :
          /\ store[i].metadata.uuid_filename \notin Range(sres.sdf)
          /\ store[i].dist < 100
          /\ \E j \in DOMAIN sres.out.results : sres.out.results[j].score > 20

\* C9: k clamping. similarity_search returns at most min(k, N) results for a
\* store of N chunks under every filter shape, and for N = 0 it returns the
\* empty list without raising and without querying the index.
C9_KClamping ==
    sres.st = "done" =>
        /\ Len(sres.out.results) <= Min(sres.k, Len(store))
        /\ Len(store) = 0 =>
              (~sres.out.raised /\ sres.out.results = <<>> /\ ~sres.out.queried)

\* an in-set search whose documents hold more than k chunks returned exactly k
C9_Witness_InSetTruncated ==
    /\ sres.st = "done"
    /\ Len(sres.sdf) = 2
    /\ sres.sdf[1] # sres.sdf[2]
    /\ Cardinality({i \in DOMAIN store :
           store[i].metadata.uuid_filename \in Range(sres.sdf)}) > sres.k
    /\ Len(sres.out.results) = sres.k

\* an empty store was searched while the index was failing
C9_Witness_EmptyStore ==
    /\ sres.st = "done"
    /\ Len(store) = 0
    /\ sres.fault.bad # {}

(***************************************************************************)
(* Context assembly (generate_response, lines 532-560).                    *)
(*                                                                         *)
(* Only lengths matter: a chunk's content is [len |-> n], and the length   *)
(* of a filename is NameLen. The score is printed with two decimals, which *)
(* takes 4 characters for a score in [0, 1].                               *)
(***************************************************************************)
max_context_length == 2000
\* len(content) > 500: content = content[:500] + "..."
per_chunk_cap == 500
ellipsis_len == 3
\* len("[Source: ") + len(" | Relevance: ") + len("0.00") + len("]") + len("\n")
label_overhead == 29
\* len("\n\n---\n\n")
delimiter_len == 7

\* len(filename): document C carries a long file name; L stands for a chunk
\* whose filename metadata is longer than the whole budget (the metadata of a
\* stored chunk is a free string; only a database column that enforces its
\* declared length keeps the name of an uploaded file under 256 characters)
NameLen(filename) ==
    IF filename = "C" THEN 137 ELSE IF filename = "L" THEN 1980 ELSE 8

\* len(chunk_text) for one result
chunk_text_len(result) ==
    LET content_len == IF result.content.len > per_chunk_cap
                       THEN per_chunk_cap + ellipsis_len
                       ELSE result.content.len
    IN  label_overhead + NameLen(result.metadata.filename) + content_len

RECURSIVE pack_loop_skip(_, _, _)
\* a slip: continue instead of break, a chunk that does not fit is skipped
pack_loop_skip(results, context_parts, total_context_length) ==
    IF results = <<>> THEN context_parts
    ELSE LET n == chunk_text_len(Head(results))
         IN  IF total_context_length + n > max_context_length
             THEN pack_loop_skip(Tail(results), context_parts, total_context_length)
             ELSE pack_loop_skip(Tail(results), Append(context_parts, n),
                                 total_context_length + n)

RECURSIVE pack_loop(_, _, _)
\* the for loop: context_parts (as lengths) given the results still to visit
pack_loop(results, context_parts, total_context_length) ==
    IF results = <<>> THEN context_parts
    ELSE LET n == chunk_text_len(Head(results))
         IN  IF total_context_length + n > max_context_length
             THEN context_parts
             ELSE pack_loop(Tail(results), Append(context_parts, n),
                            total_context_length + n)

RECURSIVE SumSeq(_)
SumSeq(s) == IF s = <<>> THEN 0 ELSE Head(s) + SumSeq(Tail(s))

\* len("\n\n---\n\n".join(context_parts))
joined_len(context_parts) ==
    IF context_parts = <<>> THEN 0
    ELSE SumSeq(context_parts) + delimiter_len * (Len(context_parts) - 1)

\* the context handed to the prompt: the lengths of its parts and of the whole
pack(results) ==
    LET context_parts == pack_loop(results, <<>>, 0)
    IN  [parts |-> context_parts, context_len |-> joined_len(context_parts)]

(***************************************************************************)
(* SpecPack: context assembly applied to any re-ranked result list.        *)
(***************************************************************************)
MaxResults == 4
ContentLens == {100, 500, 640}
\* the documents the results come from, by the length of their file names
PackDocs == {"A", "C", "L"}

PackResults ==
    {[content |-> [len |-> n, keyword_matches |-> 0, first_para_matches |-> 0],
      metadata |-> DocMeta(d), score |-> 50, id |-> 0] :
        d \in PackDocs, n \in ContentLens}

\* lines 525-530: the one test between retrieval and the provider's stream
no_information(search_results) == search_results = <<>>

PackInit ==
    /\ \E rs \in SeqsUpTo(PackResults, MaxResults) : pk = [st |-> "in", results |-> rs]
    /\ LimiterOff
    /\ SearchOff
    /\ SegOff
    /\ GenOff
    /\ MoreOff
    /\ ExtraOff

\* lines 525-611 with a model available: the error event and return, or the
\* context is built and the provider's stream is started with it
PackContext ==
    /\ pk.st = "in"
    /\ pk' = [st |-> "out", results |-> pk.results, out |-> pack(pk.results),
              provider_called |-> ~no_information(pk.results)]
    /\ UNCHANGED notPack

PackNext == PackContext

SpecPack == PackInit /\ [][PackNext]_vars

\* C5: budget respected. The context string handed to the provider is never
\* longer than the total character budget.
C5_BudgetRespected ==
    pk.st = "out" => pk.out.context_len <= max_context_length

(***************************************************************************)
(* Sentence-level streaming (generate_response, lines 606-648).            *)
(* A text is a sequence of one-character strings.                          *)
(***************************************************************************)
Whitespace == {" ", "\n"}
Terminators == {".", "!", "?"}

RECURSIVE lstrip(_)
lstrip(s) ==
    IF s # <<>> /\ Head(s) \in Whitespace THEN lstrip(Tail(s)) ELSE s

RECURSIVE rstrip(_)
rstrip(s) ==
    IF s # <<>> /\ s[Len(s)] \in Whitespace
    THEN rstrip(SubSeq(s, 1, Len(s) - 1)) ELSE s

\* str.strip()
strip(s) == rstrip(lstrip(s))

RECURSIVE split_any_whitespace(_, _, _)
\* a slip: re.split(r'\s+', buffer), the lookbehind forgotten
split_any_whitespace(rest, cur, prev) ==
    IF rest = <<>> THEN <<cur>>
    ELSE IF Head(rest) \in Whitespace
         THEN <<cur>> \o split_any_whitespace(lstrip(rest), <<>>, " ")
         ELSE split_any_whitespace(Tail(rest), Append(cur, Head(rest)), Head(rest))

RECURSIVE split_sentences(_, _, _)
\* re.split(r'(?<=[.!?])\s+', buffer): cut at every run of whitespace that
\* directly follows a terminator. rest is what is left to scan, cur the
\* piece being built, prev the character before rest ("" at the start)
split_sentences(rest, cur, prev) ==
    IF rest = <<>> THEN <<cur>>
    ELSE IF Head(rest) \in Whitespace /\ prev \in Terminators
         THEN <<cur>> \o split_sentences(lstrip(rest), <<>>, " ")
         ELSE split_sentences(Tail(rest), Append(cur, Head(rest)), Head(rest))

RECURSIVE flush_sentences(_)
\* the for loop over complete_sentences: the contents of the response events
flush_sentences(complete_sentences) ==
    IF complete_sentences = <<>> THEN <<>>
    ELSE LET sentence == Head(complete_sentences)
             others == flush_sentences(Tail(complete_sentences))
         IN  IF strip(sentence) # <<>>
             THEN <<Append(strip(sentence), " ")>> \o others
             ELSE others

\* the body of the async for: the new buffer and the contents emitted
on_chunk(buffer, chunk) ==
    LET buffer1 == buffer \o chunk
        sentences == split_sentences(buffer1, <<>>, "")
    IN  IF Len(sentences) > 1
        THEN [buffer |-> sentences[Len(sentences)],
              emit |-> flush_sentences(SubSeq(sentences, 1, Len(sentences) - 1))]
        ELSE [buffer |-> buffer1, emit |-> <<>>]

\* lines 642-648: the remaining text in the buffer
final_flush(buffer) ==
    IF strip(buffer) # <<>> THEN <<strip(buffer)>> ELSE <<>>

(***************************************************************************)
(* SpecStream: the provider streams a text of sentences separated by       *)
(* whitespace, cut into chunks at arbitrary places.                        *)
(***************************************************************************)
MaxSentences == 3
MaxChunkLen == 2

\* sentences: each ends in a terminator, and none holds whitespace directly
\* after a terminator
Sentences ==
    {<<"a", ".">>, <<"a", " ", "b", "?">>, <<"a", ".", "b", "!">>}
Separators == {<<" ">>, <<" ", "\n">>}

RECURSIVE TextsOf(_)
\* the texts of exactly n sentences, each as [sents, text]
TextsOf(n) ==
    IF n = 1 THEN {[sents |-> <<x>>, text |-> x] : x \in Sentences}
    ELSE {[sents |-> Append(t.sents, x), text |-> t.text \o sep \o x] :
             t \in TextsOf(n - 1), sep \in Separators, x \in Sentences}

StreamTexts == UNION {TextsOf(n) : n \in 1..MaxSentences}

StreamInit ==
    /\ \E t \in StreamTexts :
          sg = [st |-> "streaming", sents |-> t.sents, text |-> t.text,
                pos |-> 0, buffer |-> <<>>, out |-> <<>>, chunks |-> 0]
    /\ LimiterOff
    /\ SearchOff
    /\ PackOff
    /\ GenOff
    /\ MoreOff
    /\ ExtraOff

\* one chunk arrives from chain.astream
StreamChunk ==
    /\ sg.st = "streaming"
    /\ sg.pos < Len(sg.text)
    /\ \E n \in (1..MaxChunkLen) \cup {Len(sg.text) - sg.pos} :
          /\ sg.pos + n <= Len(sg.text)
          /\ LET r == on_chunk(sg.buffer, SubSeq(sg.text, sg.pos + 1, sg.pos + n))
             IN  sg' = [sg EXCEPT !.pos = sg.pos + n, !.buffer = r.buffer,
                                  !.out = sg.out \o r.emit,
                                  !.chunks = Min(sg.chunks + 1, 2)]
    /\ UNCHANGED notSeg

\* the stream ends: the buffer is flushed
StreamEnd ==
    /\ sg.st = "streaming"
    /\ sg.pos = Len(sg.text)
    /\ sg' = [sg EXCEPT !.st = "done", !.buffer = <<>>,
                        !.out = sg.out \o final_flush(sg.buffer)]
    /\ UNCHANGED notSeg

StreamNext == StreamChunk \/ StreamEnd

SpecStream == StreamInit /\ [][StreamNext]_vars

\* C10: sentence segmentation. A streamed text of n sentences separated by
\* whitespace yields exactly n response events in sentence order: the first
\* n-1 are the sentence plus one space, emitted while streaming, the last is
\* the final flush of the last sentence without a trailing space, and no
\* response is empty.
C10_SentenceSegmentation ==
    LET n == Len(sg.sents)
    IN  /\ sg.st = "streaming" =>
              /\ Len(sg.out) <= n - 1
              /\ \A i \in DOMAIN sg.out : sg.out[i] = Append(sg.sents[i], " ")
        /\ sg.st = "done" =>
              /\ Len(sg.out) = n
              /\ \A i \in 1..(n - 1) : sg.out[i] = Append(sg.sents[i], " ")
              /\ sg.out[n] = sg.sents[n]
              /\ \A i \in DOMAIN sg.out : sg.out[i] # <<>>

\* three sentences, one with a space inside and two separated by a run of
\* whitespace, arrived in several chunks and the stream has ended
C10_Witness_ThreeSentences ==
    /\ sg.st = "done"
    /\ Len(sg.sents) = 3
    /\ sg.chunks = 2
    /\ Len(sg.out) = 3
    /\ \E i \in 1..3 : sg.sents[i] = <<"a", " ", "b", "?">>
    /\ Len(sg.text) > Len(sg.sents[1]) + Len(sg.sents[2]) + Len(sg.sents[3]) + 2

(***************************************************************************)
(* generate_response: helpers.                                             *)
(***************************************************************************)
\* await asyncio.sleep(5) before the one retry of the search
retry_backoff == 5
\* await asyncio.sleep(2) when the token handler is near its limits
token_pause == 2
\* search_results[:5]
max_sources == 5

\* the dictionary given to format_sse, with every key present
Ev(type, text, msg, sources, provider) ==
    [type |-> type, text |-> text, msg |-> msg, sources |-> sources,
     provider |-> provider]
Warning(msg) == Ev("warning", <<>>, msg, <<>>, "")
ErrorEv(msg, provider) == Ev("error", <<>>, msg, <<>>, provider)
Response(text, provider) == Ev("response", text, "", <<>>, provider)
Sources(source_list, provider) == Ev("sources", <<>>, "", source_list, provider)
Done(provider) == Ev("done", <<>>, "", <<>>, provider)

\* the gate as generate_response (463-474) and async_rate_limited (62-67) use
\* it: admit and record at once, or compute the wait; the record after the
\* wait is made by the caller when it wakes
admission(cs, t) ==
    LET c == can_make_call(cs, t)
    IN  IF c.ret
        THEN [raised |-> FALSE, sleep |-> FALSE, wait_time |-> 0,
              calls |-> add_call(c.calls, t)]
        ELSE LET w == time_until_available(c.calls, t)
             IN  [raised |-> w.raised, sleep |-> ~w.raised, wait_time |-> w.ret,
                  calls |-> w.calls]

\* get_current_model: the model of current_provider, or ValueError
get_current_model(s) ==
    IF s.current_provider = "gemini"
    THEN [raised |-> ~s.gemini_model, model |-> "gemini"]
    ELSE [raised |-> ~s.ollama_model, model |-> "ollama"]

RECURSIVE Rescore(_)
\* the for loop of _re_rank_results: scores in hundredths
Rescore(results) ==
    IF results = <<>> THEN <<>>
    ELSE LET result == Head(results)
             adjusted_score == result.score
                               + result.content.keyword_matches * 5
                               + result.content.first_para_matches * 10
         IN  <<[result EXCEPT !.score = Min(adjusted_score, 100)]>>
             \o Rescore(Tail(results))

RECURSIVE InsertByScoreDesc(_, _)
InsertByScoreDesc(sorted, x) ==
    IF sorted = <<>> THEN <<x>>
    ELSE IF Head(sorted).score >= x.score
         THEN <<Head(sorted)>> \o InsertByScoreDesc(Tail(sorted), x)
         ELSE <<x>> \o sorted

RECURSIVE SortByScoreDesc(_)
\* sorted(results, key=score, reverse=True): descending and stable
SortByScoreDesc(s) ==
    IF s = <<>> THEN <<>>
    ELSE InsertByScoreDesc(SortByScoreDesc(SubSeq(s, 1, Len(s) - 1)), s[Len(s)])

\* _re_rank_results
re_rank_results(results) ==
    IF results = <<>> THEN <<>> ELSE SortByScoreDesc(Rescore(results))

RECURSIVE responses(_, _)
\* one response event per content
responses(contents, provider) ==
    IF contents = <<>> THEN <<>>
    ELSE <<Response(Head(contents), provider)>> \o responses(Tail(contents), provider)

RECURSIVE source_entries(_)
source_entries(results) ==
    IF results = <<>> THEN <<>>
    ELSE <<[filename |-> Head(results).metadata.filename,
            document_id |-> Head(results).metadata.document_id]>>
         \o source_entries(Tail(results))

\* a slip: the sources are taken from the chunks that entered the context
source_list_from_context(search_results) ==
    source_entries(Take(search_results,
                        Min(max_sources, Len(pack(search_results).parts))))

\* source_list, lines 652-661
source_list(search_results) == source_entries(Take(search_results, max_sources))

\* a slip: the sources event is left out
finish_events_no_sources(buffer, search_results, provider) ==
    responses(final_flush(buffer), provider) \o <<Done(provider)>>

\* lines 642-674: the events after the provider's stream has ended
finish_events(buffer, search_results, provider) ==
    responses(final_flush(buffer), provider)
    \o <<Sources(source_list(search_results), provider), Done(provider)>>

\* a slip: the return after the rate-limit error is missing, so the stream
\* goes on to the flush, the sources and done
stream_error_events_no_return(kind, buffer, search_results, provider) ==
    IF kind = "rate_limit"
    THEN <<ErrorEv("rate_limit", "")>> \o finish_events(buffer, search_results, provider)
    ELSE <<ErrorEv("generating", provider)>>

\* a slip: the buffer is sent before the rate-limit error
stream_error_events_flush(kind, buffer, search_results, provider) ==
    IF kind = "rate_limit"
    THEN responses(final_flush(buffer), provider) \o <<ErrorEv("rate_limit", "")>>
    ELSE <<ErrorEv("generating", provider)>>

\* lines 629-640 and 676-682: the events when chain.astream raises
stream_error_events(kind, buffer, search_results, provider) ==
    IF kind = "rate_limit"
    THEN <<ErrorEv("rate_limit", "")>>
    ELSE <<ErrorEv("generating", provider)>>

(***************************************************************************)
(* Spec: one generate_response request from its call to its last event.    *)
(* The limiter may hold calls of earlier requests; the store holds what    *)
(* earlier uploads put there. Each action runs from one suspension point   *)
(* (await, yield) of the coroutine to the next one it stops at.            *)
(***************************************************************************)
MaxStoreMain == 2
\* context_window of the request
MaxKMain == 2

\* the calls earlier requests may have left on the limiter at time 0
InitialCalls ==
    SeqsUpTo({0}, MaxCalls)

MainChunks == {[d |-> "A", dist |-> 20], [d |-> "B", dist |-> 150]}

RECURSIVE StoreOf(_)
\* the store after add_texts of the given chunks, in order
StoreOf(cs) ==
    IF cs = <<>> THEN <<>>
    ELSE LET st == StoreOf(SubSeq(cs, 1, Len(cs) - 1))
         IN  Append(st, NewChunk(st, cs[Len(cs)].d, cs[Len(cs)].dist))

MainStores == {StoreOf(cs) : cs \in SeqsUpTo(MainChunks, MaxStoreMain)}

\* what _get_session_document_filter returns for a session id: None (session
\* not found, no documents, or the lookup raised) or the documents' uuids
ScopeOutcomes == {<<>>, <<"A">>, <<"A", "B">>, <<"C">>}

\* the texts the provider streams
MainTexts ==
    {<<>>, <<"a", ".">>, <<"a", ".", " ", "b", "!">>}

ReqIdle ==
    [requested |-> "none", session |-> "none", provider |-> "", wake |-> 0,
     k |-> 0, keywords |-> FALSE, sdf |-> <<>>, attempt |-> 1,
     results |-> <<>>, context |-> [parts |-> <<>>, context_len |-> 0]]

SgIdle ==
    [st |-> "idle", sents |-> <<>>, text |-> <<>>, pos |-> 0, buffer |-> <<>>,
     out |-> <<>>, chunks |-> 0]

Init ==
    /\ calls \in InitialCalls
    /\ now = 0
    /\ hist = <<>>
    /\ last = NoOp
    /\ store \in MainStores
    /\ sres = [st |-> "off"]
    /\ PackOff
    /\ sg = SgIdle
    /\ pc = "idle"
    /\ events = <<>>
    /\ req = ReqIdle
    /\ svc \in [current_provider : {"gemini", "ollama"}, gemini_model : BOOLEAN,
                ollama_model : {TRUE}]
    /\ cnt = [adds |-> 0, provider_calls |-> 0, searches |-> <<>>, streams |-> 0,
              waits |-> <<>>]
    /\ gate = <<>>
    /\ ExtraOff
    /\ MoreOff

\* lines 476-488: the token handler's thresholds may ask for a pause
TokenOutcomes == IF svc.gemini_model THEN {FALSE, TRUE} ELSE {FALSE}

\* c with one more asyncio.sleep of the request logged, by the place it is at
Waited(c, kind) == [c EXCEPT !.waits = Append(@, kind)]

\* after the record at line 474: the token handler's warning and pause, or on
\* to the scope lookup
Admitted(r, es, pause, c) ==
    IF pause
    THEN /\ events' = Append(es, Warning("approaching_limits"))
         /\ pc' = "token_sleep"
         /\ req' = [r EXCEPT !.wake = now + token_pause]
         /\ cnt' = Waited(c, "token")
    ELSE /\ events' = es
         /\ pc' = "scope"
         /\ req' = r
         /\ cnt' = c

\* lines 445-474: the provider is forced to gemini and the gate is consulted
GenStart ==
    /\ pc = "idle"
    /\ \E requested \in {"none", "gemini", "ollama"}, session \in {"none", "s1"} :
          LET a == admission(calls, now)
              r0 == [req EXCEPT !.requested = requested, !.session = session,
                                !.provider = "gemini"]
          IN  /\ svc' = [svc EXCEPT !.current_provider = "gemini"]
              /\ calls' = a.calls
              /\ IF a.raised
                 THEN /\ events' = <<ErrorEv("pipeline", "")>>
                      /\ pc' = "done"
                      /\ req' = r0
                      /\ cnt' = cnt
                 ELSE IF a.sleep
                 THEN /\ events' = <<Warning("rate_limit_wait")>>
                      /\ pc' = "admit_sleep"
                      /\ req' = [r0 EXCEPT !.wake = now + a.wait_time]
                      /\ cnt' = Waited(cnt, "admission")
                 ELSE \E pause \in TokenOutcomes :
                         Admitted(r0, <<>>, pause, [cnt EXCEPT !.adds = @ + 1])
    /\ UNCHANGED <<now, store, sg, notGen>>

\* lines 471-474: the sleep is over and the call is recorded
GenAdmitWake ==
    /\ pc = "admit_sleep"
    /\ now >= req.wake
    /\ calls' = add_call(calls, now)
    /\ \E pause \in TokenOutcomes :
          Admitted(req, events, pause, [cnt EXCEPT !.adds = @ + 1])
    /\ UNCHANGED <<now, store, sg, svc, notGen>>

\* line 487: the pause is over
GenTokenWake ==
    /\ pc = "token_sleep"
    /\ now >= req.wake
    /\ pc' = "scope"
    /\ UNCHANGED <<calls, now, store, sg, events, req, svc, cnt, notGen>>

\* lines 490-493: the session's document filter. The question (with or
\* without filter keywords) and context_window are fixed here, where they
\* are first read
GenScope ==
    /\ pc = "scope"
    /\ \E k \in 1..MaxKMain, keywords \in BOOLEAN,
          sdf \in IF req.session = "none" THEN {<<>>} ELSE ScopeOutcomes :
          req' = [req EXCEPT !.k = k, !.keywords = keywords, !.sdf = sdf]
    /\ pc' = "search"
    /\ UNCHANGED <<calls, now, store, sg, events, svc, cnt, notGen>>

\* a slip: a rate-limited search is retried however often it has failed
should_retry_every_attempt(raised, kind, attempt) == raised /\ kind = "rate_limit"

\* a slip: every failure of the first search is retried
should_retry_any_error(raised, kind, attempt) == raised /\ attempt = 1

\* lines 502-518: the first search failed with "429" or "rate limit" in the
\* error's text; the retry at 512 is outside the try, so its failure is final
should_retry(raised, kind, attempt) ==
    raised /\ attempt = 1 /\ kind = "rate_limit"

\* lines 359-365 and 495-689: similarity_search answers, and the request runs
\* on to the retry's sleep, to its error event, or to the first await of the
\* provider's stream. cs and c1 are the limiter's calls and the counters as
\* the extraction left them
SearchAndStream(ex, cs, c1) ==
    \E fault \in Faults :
      LET out == perform_hybrid_search(store, req.k, req.sdf, ex, fault)
          search_results == re_rank_results(out.results)
          model == get_current_model(svc)
          c2 == [c1 EXCEPT !.searches =
                    Append(@, [k |-> req.k, sdf |-> req.sdf,
                               keywords |-> req.keywords, at |-> now,
                               raised |-> out.raised, kind |-> out.kind])]
      IN  /\ calls' = cs
          /\ IF should_retry(out.raised, out.kind, req.attempt)
             THEN /\ events' = Append(events, Warning("retrying"))
                  /\ pc' = "retry_sleep"
                  /\ req' = [req EXCEPT !.wake = now + retry_backoff, !.attempt = 2]
                  /\ cnt' = Waited(c2, "backoff")
                  /\ sg' = sg
             ELSE IF out.raised
             THEN /\ events' = Append(events, ErrorEv("pipeline", ""))
                  /\ pc' = "done"
                  /\ req' = req
                  /\ cnt' = c2
                  /\ sg' = sg
             ELSE IF search_results = <<>>
             THEN /\ events' = Append(events, ErrorEv("no_relevant", ""))
                  /\ pc' = "done"
                  /\ req' = req
                  /\ cnt' = c2
                  /\ sg' = sg
             ELSE IF model.raised
             THEN /\ events' = Append(events, ErrorEv("generating", req.provider))
                  /\ pc' = "done"
                  /\ req' = [req EXCEPT !.results = search_results,
                                        !.context = pack(search_results)]
                  /\ cnt' = c2
                  /\ sg' = sg
             ELSE /\ events' = events
                  /\ pc' = "stream"
                  /\ req' = [req EXCEPT !.results = search_results,
                                        !.context = pack(search_results)]
                  /\ cnt' = [c2 EXCEPT !.provider_calls = @ + 1, !.streams = @ + 1]
                  /\ \E text \in MainTexts :
                        sg' = [SgIdle EXCEPT !.st = "streaming", !.text = text]

\* _extract_query_metadata, lines 282-328, after the decorator recorded the
\* call: without a filter keyword it returns {} at once; get_current_model
\* raising, a failing provider call and malformed JSON all end in {}
ExtractAndSearch(cs, c1) ==
    IF req.keywords /\ ~get_current_model(svc).raised
    THEN \E ex \in ExtractedFilters :
            SearchAndStream(ex, cs, [c1 EXCEPT !.provider_calls = @ + 1])
    ELSE SearchAndStream(EmptyDict, cs, c1)

\* lines 497-501 / 512-516: _perform_hybrid_search is entered
GenSearch ==
    /\ pc = "search"
    /\ IF req.sdf # <<>>
       THEN SearchAndStream(EmptyDict, calls, cnt)
       ELSE LET a == admission(calls, now)
            IN  IF a.raised
                THEN SearchAndStream(EmptyDict, a.calls, cnt)
                ELSE IF a.sleep
                THEN /\ pc' = "extract_sleep"
                     /\ req' = [req EXCEPT !.wake = now + a.wait_time]
                     /\ calls' = a.calls
                     /\ cnt' = Waited(cnt, "extract")
                     /\ UNCHANGED <<events, sg>>
                ELSE ExtractAndSearch(a.calls, [cnt EXCEPT !.adds = @ + 1])
    /\ UNCHANGED <<now, store, svc, notGen>>

\* rate_limiter.py lines 65-68: the decorator's sleep is over
GenExtractWake ==
    /\ pc = "extract_sleep"
    /\ now >= req.wake
    /\ ExtractAndSearch(add_call(calls, now), [cnt EXCEPT !.adds = @ + 1])
    /\ UNCHANGED <<now, store, svc, notGen>>

\* line 511: the backoff is over, the search is tried once more
GenRetryWake ==
    /\ pc = "retry_sleep"
    /\ now >= req.wake
    /\ pc' = "search"
    /\ UNCHANGED <<calls, now, store, sg, events, req, svc, cnt, notGen>>

\* lines 611-628: one chunk of the provider's stream
GenStreamChunk ==
    /\ pc = "stream"
    /\ sg.pos < Len(sg.text)
    /\ \E n \in (1..MaxChunkLen) \cup {Len(sg.text) - sg.pos} :
          /\ sg.pos + n <= Len(sg.text)
          /\ LET r == on_chunk(sg.buffer, SubSeq(sg.text, sg.pos + 1, sg.pos + n))
             IN  /\ sg' = [sg EXCEPT !.pos = sg.pos + n, !.buffer = r.buffer]
                 /\ events' = events \o responses(r.emit, req.provider)
                 /\ cnt' = [cnt EXCEPT !.waits =
                               @ \o [j \in DOMAIN r.emit |-> "pacing"]]
    /\ UNCHANGED <<calls, now, store, pc, req, svc, notGen>>

\* lines 629-640, 676-682: the provider's stream raises
GenStreamError ==
    /\ pc = "stream"
    /\ \E kind \in {"rate_limit", "other"} :
          events' = events \o stream_error_events(kind, sg.buffer, req.results,
                                                  req.provider)
    /\ pc' = "done"
    /\ sg' = [sg EXCEPT !.st = "failed"]
    /\ UNCHANGED <<calls, now, store, req, svc, cnt, notGen>>

\* lines 642-674: the provider's stream has ended
GenStreamEnd ==
    /\ pc = "stream"
    /\ sg.pos = Len(sg.text)
    /\ events' = events \o finish_events(sg.buffer, req.results, req.provider)
    /\ pc' = "done"
    /\ sg' = [sg EXCEPT !.st = "done"]
    /\ UNCHANGED <<calls, now, store, req, svc, cnt, notGen>>

\* time passes while the request sleeps
GenTick ==
    /\ pc \in {"admit_sleep", "token_sleep", "extract_sleep", "retry_sleep"}
    /\ now < req.wake
    /\ now' = now + 1
    /\ UNCHANGED <<calls, store, sg, genVars, notGen>>

Next ==
    \/ GenStart \/ GenAdmitWake \/ GenTokenWake \/ GenScope \/ GenSearch
    \/ GenExtractWake \/ GenRetryWake \/ GenStreamChunk \/ GenStreamError
    \/ GenStreamEnd \/ GenTick

Spec == Init /\ [][Next]_vars

RECURSIVE NonWarning(_)
\* the events without the warning events
NonWarning(es) ==
    IF es = <<>> THEN <<>>
    ELSE IF Head(es).type = "warning" THEN NonWarning(Tail(es))
         ELSE <<Head(es)>> \o NonWarning(Tail(es))

Types(es) == [i \in DOMAIN es |-> es[i].type]

\* response* followed by tail
ResponsesThen(ts, tail) ==
    /\ Len(ts) >= Len(tail)
    /\ SubSeq(ts, Len(ts) - Len(tail) + 1, Len(ts)) = tail
    /\ \A i \in 1..(Len(ts) - Len(tail)) : ts[i] = "response"

\* C1: ignoring warnings, the events of a request are zero or more response
\* events, then either sources directly followed by done and nothing more, or
\* one error event; while the request runs they are a prefix of that, and no
\* response follows sources or done, and done never comes without sources
\* directly before it.
C1_EventOrder ==
    LET ts == Types(NonWarning(events))
    IN  /\ \/ ResponsesThen(ts, <<>>)
           \/ ResponsesThen(ts, <<"sources", "done">>)
           \/ ResponsesThen(ts, <<"error">>)
        /\ pc = "done" => ~ResponsesThen(ts, <<>>)
        /\ pc # "done" => ResponsesThen(ts, <<>>)

\* a stream of two responses, then sources and done, after a warning
C1_Witness_FullStream ==
    /\ pc = "done"
    /\ Len(events) = 5
    /\ Types(events) = <<"warning", "response", "response", "sources", "done">>

\* C2: a stream holds at most one error event, the error event is the last
\* event of the stream, and a stream with an error event holds neither a
\* sources nor a done event.
C2_ErrorIsTerminal ==
    \A i \in DOMAIN events :
        events[i].type = "error" =>
            /\ i = Len(events)
            /\ pc = "done"
            /\ \A j \in DOMAIN events : events[j].type \notin {"sources", "done"}

\* the provider reported a rate limit after a response had been sent
C2_Witness_MidStreamError ==
    /\ pc = "done"
    /\ Len(events) >= 2
    /\ events[Len(events)].type = "error"
    /\ events[Len(events)].msg = "rate_limit"
    /\ events[Len(events) - 1].type = "response"
    /\ sg.buffer # <<>>

\* C7: the add_call() records a request makes equal the provider calls it
\* issues.
C7_RecordsEqualProviderCalls ==
    pc = "done" => cnt.adds = cnt.provider_calls

\* C8: no grounding. With an empty chunk store the stream is exactly one
\* error event, "no relevant documents found", and no response, sources or
\* done event, whatever the question and the session.
C8_NoGrounding ==
    (pc = "done" /\ store = <<>>) =>
        NonWarning(events) = <<ErrorEv("no_relevant", "")>>

\* an empty store was searched for a session with documents, after the gate
\* had made the request wait
C8_Witness_EmptyStoreScoped ==
    /\ pc = "done"
    /\ store = <<>>
    /\ req.sdf # <<>>
    /\ Len(events) = 2
    /\ events[1].type = "warning"

(***************************************************************************)
(* SpecGate: several generate_response requests run concurrently on the    *)
(* one event loop and share gemini_limiter. Only what touches the limiter  *)
(* is kept of each request: the admission (lines 460-474), the decorated   *)
(* _extract_query_metadata of each hybrid search without a session filter  *)
(* (async_rate_limited), and the one retry of the search. A request runs   *)
(* without interruption between two awaits.                                *)
(***************************************************************************)
NumRequests == 2

Requests == 1..NumRequests

GateInit ==
    /\ calls = <<>>
    /\ now = 0
    /\ hist = <<>>
    /\ last = NoOp
    /\ SearchOff
    /\ PackOff
    /\ SegOff
    /\ pc = "off"
    /\ events = <<>>
    /\ req = [st |-> "off"]
    /\ svc = [st |-> "off"]
    /\ cnt = [st |-> "off"]
    /\ gate = [r \in Requests |-> [pc |-> "idle", wake |-> 0, attempt |-> 1]]
    /\ ExtraOff
    /\ MoreOff

\* lines 460-474 up to the sleep or the record
GateStart(r) ==
    /\ gate[r].pc = "idle"
    /\ LET a == admission(calls, now)
       IN  /\ calls' = a.calls
           /\ gate' = [gate EXCEPT ![r] =
                  IF a.raised THEN [@ EXCEPT !.pc = "done"]
                  ELSE IF a.sleep
                  THEN [@ EXCEPT !.pc = "admit_sleep", !.wake = now + a.wait_time]
                  ELSE [@ EXCEPT !.pc = "search"]]
    /\ UNCHANGED <<now, notGate>>

\* lines 471-474: the sleep is over, the call is recorded
GateAdmitWake(r) ==
    /\ gate[r].pc = "admit_sleep"
    /\ now >= gate[r].wake
    /\ calls' = add_call(calls, now)
    /\ gate' = [gate EXCEPT ![r].pc = "search"]
    /\ UNCHANGED <<now, notGate>>

\* the hybrid search has answered: the request ends, or sleeps before its
\* one retry
AfterSearch(g) ==
    {[g EXCEPT !.pc = "done"]}
    \cup IF g.attempt = 1
         THEN {[g EXCEPT !.pc = "retry_sleep", !.wake = now + retry_backoff,
                         !.attempt = 2]}
         ELSE {}

\* _perform_hybrid_search with a session filter: the limiter is not touched
GateSearchScoped(r) ==
    /\ gate[r].pc = "search"
    /\ \E g \in AfterSearch(gate[r]) : gate' = [gate EXCEPT ![r] = g]
    /\ UNCHANGED <<calls, now, notGate>>

\* _perform_hybrid_search without one: async_rate_limited, lines 62-67
GateExtract(r) ==
    /\ gate[r].pc = "search"
    /\ LET a == admission(calls, now)
       IN  /\ calls' = a.calls
           /\ IF a.sleep
              THEN gate' = [gate EXCEPT ![r].pc = "extract_sleep",
                                        ![r].wake = now + a.wait_time]
              ELSE \E g \in AfterSearch(gate[r]) : gate' = [gate EXCEPT ![r] = g]
    /\ UNCHANGED <<now, notGate>>

\* async_rate_limited, lines 65-68: the sleep is over, the call is recorded
GateExtractWake(r) ==
    /\ gate[r].pc = "extract_sleep"
    /\ now >= gate[r].wake
    /\ calls' = add_call(calls, now)
    /\ \E g \in AfterSearch(gate[r]) : gate' = [gate EXCEPT ![r] = g]
    /\ UNCHANGED <<now, notGate>>

\* line 511: the backoff is over
GateRetryWake(r) ==
    /\ gate[r].pc = "retry_sleep"
    /\ now >= gate[r].wake
    /\ gate' = [gate EXCEPT ![r].pc = "search"]
    /\ UNCHANGED <<calls, now, notGate>>

GateTick ==
    /\ now < MaxTime
    /\ now' = now + 1
    /\ UNCHANGED <<calls, gate, notGate>>

GateNext ==
    \/ GateTick
    \/ \E r \in Requests :
          \/ GateStart(r) \/ GateAdmitWake(r) \/ GateSearchScoped(r)
          \/ GateExtract(r) \/ GateExtractWake(r) \/ GateRetryWake(r)

SpecGate == GateInit /\ [][GateNext]_vars

\* C4: with requests interleaving on the shared limiter, the recorded calls
\* whose timestamps lie inside the trailing period never number more than
\* max_calls.
C4_WindowNeverExceeded ==
    Cardinality({i \in DOMAIN calls : now - calls[i] < Period}) <= MaxCalls

(***************************************************************************)
(* SpecRank: similarity_search followed by _re_rank_results, for any store *)
(* whose chunks lie at any distance from the query and contain any number  *)
(* of the question's terms. A term found in the first paragraph is also    *)
(* found in the content.                                                   *)
(***************************************************************************)
MaxRankChunks == 2

\* distances the index reports (cosine distance lies in [0, 2])
RankDists == {0, 50, 100, 101, 200}
\* (keyword_matches, first_para_matches) of a chunk for the question
RankMatches == {<<0, 0>>, <<1, 0>>, <<1, 1>>, <<7, 7>>}

RankChunks == {[dist |-> x, m |-> m] : x \in RankDists, m \in RankMatches}

RECURSIVE RankStoreOf(_)
\* the store after add_texts of the given chunks of document A, in order
RankStoreOf(cs) ==
    IF cs = <<>> THEN <<>>
    ELSE LET st == RankStoreOf(SubSeq(cs, 1, Len(cs) - 1))
             c == cs[Len(cs)]
         IN  Append(st, [NewChunk(st, "A", c.dist) EXCEPT
                           !.content.keyword_matches = c.m[1],
                           !.content.first_para_matches = c.m[2]])

RankInit ==
    /\ store \in {RankStoreOf(cs) : cs \in SeqsUpTo(RankChunks, MaxRankChunks)}
    /\ sres = [st |-> "off"]
    /\ \E k \in 1..MaxRankChunks : rk = [st |-> "in", k |-> k]
    /\ LimiterOff
    /\ PackOff
    /\ SegOff
    /\ GenOff
    /\ MoreOff
    /\ LookupOff
    /\ AddOff
    /\ FinOff

\* rag_service.py lines 359-365 and 520: the search, then the re-ranking
RankSearch ==
    /\ rk.st = "in"
    /\ LET out == similarity_search(store, rk.k, EmptyDict, NoFault)
       IN  rk' = [st |-> "done", k |-> rk.k, raw |-> out.results,
                  ranked |-> re_rank_results(out.results)]
    /\ UNCHANGED notRank

RankNext == RankSearch

SpecRank == RankInit /\ [][RankNext]_vars

\* C11: score bound and monotonicity. Every re-ranked result's score s
\* satisfies raw <= s <= 1.0 and s >= 0, raw being the similarity the store
\* returned for the same chunk.
C11_ScoreBound ==
    rk.st = "done" =>
        /\ Len(rk.ranked) = Len(rk.raw)
        /\ \A i \in DOMAIN rk.ranked :
              \E j \in DOMAIN rk.raw :
                 /\ rk.raw[j].id = rk.ranked[i].id
                 /\ rk.raw[j].score <= rk.ranked[i].score
                 /\ rk.ranked[i].score <= 100
                 /\ rk.ranked[i].score >= 0

\* one result was boosted up to the cap, another came from a distance above
\* 1.0 and was boosted without reaching it
C11_Witness_CappedAndBoosted ==
    /\ rk.st = "done"
    /\ \E i, j \in DOMAIN rk.ranked :
          /\ rk.ranked[i].score = 100
          /\ \E a \in DOMAIN rk.raw :
                rk.raw[a].id = rk.ranked[i].id /\ rk.raw[a].score < 100
          /\ store[rk.ranked[j].id].dist > 100
          /\ rk.ranked[j].score < 100
          /\ \E b \in DOMAIN rk.raw :
                rk.raw[b].id = rk.ranked[j].id /\ rk.raw[b].score < rk.ranked[j].score

\* the chunks of document d in the store
ChunksOf(d) == {i \in DOMAIN store : store[i].metadata.uuid_filename = d}

\* C12: multi-document isolation. A search scoped to one document, with k at
\* least the number of that document's chunks, returns exactly the chunks of
\* that document: all of them and nothing else, whatever else the store holds.
C12_Isolation ==
    (/\ sres.st = "done"
     /\ Len(sres.sdf) = 1
     /\ ~sres.out.raised
     /\ sres.k >= Cardinality(ChunksOf(sres.sdf[1]))) =>
        /\ Len(sres.out.results) = Cardinality(ChunksOf(sres.sdf[1]))
        /\ {sres.out.results[i].id : i \in DOMAIN sres.out.results}
              = ChunksOf(sres.sdf[1])

\* two chunks of the scoped document were returned while the store held a
\* nearer chunk of another document
C12_Witness_TwoOfThree ==
    /\ sres.st = "done"
    /\ Len(sres.sdf) = 1
    /\ ~sres.out.raised
    /\ Cardinality(ChunksOf(sres.sdf[1])) = 2
    /\ Len(sres.out.results) = 2
    /\ \E i \in DOMAIN store :
          /\ i \notin ChunksOf(sres.sdf[1])
          /\ \E j \in ChunksOf(sres.sdf[1]) : store[i].dist < store[j].dist

\* C13: a request is served only by the provider it selected. Every event
\* that names a provider names the one the request asked for; no other
\* provider is substituted for it.
C13_ProviderNeverSubstituted ==
    req.requested # "none" =>
        \A i \in DOMAIN events :
            events[i].provider # "" => events[i].provider = req.requested

\* C14: time_until_available() returns 0 when a call is admittable now;
\* otherwise it returns (oldest timestamp still in the window) + period - now,
\* which is positive, and after a wait of exactly that long with no call
\* recorded in between can_make_call() answers true.
C14_TimeUntilAvailable ==
    (last.op = "time_until_available" /\ ~last.raised) =>
        IF Cardinality(InWindow(now)) < MaxCalls
        THEN last.ret = 0
        ELSE /\ last.ret = SetMin({hist[i] : i \in InWindow(now)}) + Period - now
             /\ last.ret > 0
             /\ can_make_call(calls, now + last.ret).ret

(***************************************************************************)
(* SpecFin: the end of a successful stream (lines 532-560 and 642-674) for *)
(* any re-ranked result list, longer than the five sources listed and      *)
(* longer than what the character budget lets into the context.            *)
(***************************************************************************)
MaxFinResults == 6

\* a long chunk of document A and a short chunk of document B
FinResults ==
    {[content |-> [len |-> 640, keyword_matches |-> 0, first_para_matches |-> 0],
      metadata |-> DocMeta("A"), score |-> 50, id |-> 0],
     [content |-> [len |-> 100, keyword_matches |-> 0, first_para_matches |-> 0],
      metadata |-> DocMeta("B"), score |-> 50, id |-> 0]}

FinInit ==
    /\ \E rs \in SeqsUpTo(FinResults, MaxFinResults) \ {<<>>} :
          fin = [st |-> "in", search_results |-> rs]
    /\ LimiterOff
    /\ SearchOff
    /\ PackOff
    /\ SegOff
    /\ GenOff
    /\ MoreOff
    /\ RankOff
    /\ LookupOff
    /\ AddOff

\* the context is built, the provider's stream ends with an empty buffer, and
\* the closing events are emitted
FinishStream ==
    /\ fin.st = "in"
    /\ fin' = [st |-> "done", search_results |-> fin.search_results,
               context |-> pack(fin.search_results),
               events |-> finish_events(<<>>, fin.search_results, "gemini")]
    /\ UNCHANGED notFin

FinNext == FinishStream

SpecFin == FinInit /\ [][FinNext]_vars

\* C15: on a successful stream the sources event lists exactly the first
\* min(5, n) entries of the re-ranked list of n results, in rank order, each
\* as {filename, document_id}, whether or not the entry's chunk entered the
\* context.
C15_SourcesFirstFive ==
    fin.st = "done" =>
        LET n == Len(fin.search_results)
            m == IF n < 5 THEN n ELSE 5
        IN  /\ Types(fin.events) = <<"sources", "done">>
            /\ fin.events[1].sources =
                  [i \in 1..m |->
                      [filename |-> fin.search_results[i].metadata.filename,
                       document_id |-> fin.search_results[i].metadata.document_id]]

\* six results, of which the budget let fewer than five into the context,
\* and five sources listed
C15_Witness_SixResults ==
    /\ fin.st = "done"
    /\ Len(fin.search_results) = 6
    /\ Len(fin.context.parts) < 5
    /\ Len(fin.events[1].sources) = 5
    /\ \E i, j \in 1..5 : fin.events[1].sources[i] # fin.events[1].sources[j]

(***************************************************************************)
(* SpecLookup: the session's document scope (rag_service.py lines 414-441  *)
(* and 490-493, database/services.py lines 154-161 and 311-328).           *)
(*                                                                         *)
(* The database is a function from the uuids of the sessions that exist to *)
(* the uuid_filename values of their documents. A session id that is not   *)
(* given is the empty string. A lookup's answer is [none, list]: none is   *)
(* TRUE for Python's None.                                                 *)
(***************************************************************************)
SessionIds == {"s1", "s2"}
MaxSessionDocs == 2

\* where the database fails during a lookup
LookupFaults == {"none", "connect", "get_session", "get_documents"}

None == [none |-> TRUE, list |-> <<>>]
Some(l) == [none |-> FALSE, list |-> l]

\* ChatService.get_session_by_uuid: scalar_one_or_none(), or the error raised
get_session_by_uuid(db, session_uuid, fault) ==
    IF fault = "get_session" THEN [raised |-> TRUE, found |-> FALSE]
    ELSE [raised |-> FALSE, found |-> session_uuid \in DOMAIN db]

\* ChatService.get_session_documents: the documents, [] when the session is
\* gone or the query raised
get_session_documents(db, session_uuid, fault) ==
    IF fault = "get_documents" THEN <<>>
    ELSE IF session_uuid \notin DOMAIN db THEN <<>>
    ELSE db[session_uuid]

\* a slip: the handler lets the database's error through
get_session_document_filter_reraise(db, session_uuid, fault) ==
    IF fault = "connect" THEN [raised |-> TRUE, ret |-> None]
    ELSE LET chat_session == get_session_by_uuid(db, session_uuid, fault)
         IN  IF chat_session.raised THEN [raised |-> TRUE, ret |-> None]
             ELSE IF ~chat_session.found THEN [raised |-> FALSE, ret |-> None]
             ELSE LET documents == get_session_documents(db, session_uuid, fault)
                  IN  IF documents = <<>> THEN [raised |-> FALSE, ret |-> None]
                      ELSE [raised |-> FALSE, ret |-> Some(documents)]

\* _get_session_document_filter: every exception ends in None
get_session_document_filter(db, session_uuid, fault) ==
    IF fault = "connect" THEN [raised |-> FALSE, ret |-> None]
    ELSE LET chat_session == get_session_by_uuid(db, session_uuid, fault)
         IN  IF chat_session.raised THEN [raised |-> FALSE, ret |-> None]
             ELSE IF ~chat_session.found THEN [raised |-> FALSE, ret |-> None]
             ELSE LET documents == get_session_documents(db, session_uuid, fault)
                  IN  IF documents = <<>> THEN [raised |-> FALSE, ret |-> None]
                      ELSE [raised |-> FALSE, ret |-> Some(documents)]

\* generate_response, lines 490-493
session_document_filter(db, session_uuid, fault) ==
    IF session_uuid = ""
    THEN [raised |-> FALSE, looked_up |-> FALSE, ret |-> None]
    ELSE LET r == get_session_document_filter(db, session_uuid, fault)
         IN  [raised |-> r.raised, looked_up |-> TRUE, ret |-> r.ret]

LookupInit ==
    /\ lk = [st |-> "idle", db |-> <<>>]
    /\ LimiterOff
    /\ SearchOff
    /\ PackOff
    /\ SegOff
    /\ GenOff
    /\ MoreOff
    /\ RankOff
    /\ AddOff
    /\ FinOff

\* a chat session is created
CreateSession ==
    /\ lk.st = "idle"
    /\ \E u \in SessionIds \ DOMAIN lk.db :
          lk' = [lk EXCEPT !.db = [x \in DOMAIN lk.db \cup {u} |->
                                      IF x = u THEN <<>> ELSE lk.db[x]]]
    /\ UNCHANGED notLookup

\* a document is attached to a session
AttachDocument ==
    /\ lk.st = "idle"
    /\ \E u \in DOMAIN lk.db, d \in Docs :
          /\ Len(lk.db[u]) < MaxSessionDocs
          /\ d \notin Range(lk.db[u])
          /\ lk' = [lk EXCEPT !.db[u] = Append(@, d)]
    /\ UNCHANGED notLookup

\* a request resolves its scope
ResolveScope ==
    /\ lk.st = "idle"
    /\ \E session_uuid \in SessionIds \cup {""}, fault \in LookupFaults :
          lk' = [st |-> "done", db |-> lk.db, session_uuid |-> session_uuid,
                 fault |-> fault,
                 out |-> session_document_filter(lk.db, session_uuid, fault)]
    /\ UNCHANGED notLookup

LookupReturn ==
    /\ lk.st = "done"
    /\ lk' = [st |-> "idle", db |-> lk.db]
    /\ UNCHANGED notLookup

LookupNext == CreateSession \/ AttachDocument \/ ResolveScope \/ LookupReturn

SpecLookup == LookupInit /\ [][LookupNext]_vars

\* C16: scope resolution. The lookup answers the uuid_filename list of the
\* session's documents when the session exists and has documents; it answers
\* None when the session does not exist, has no documents or the lookup
\* raised; it never raises; and without a session id no lookup is made and
\* the scope is None.
C16_ScopeResolution ==
    lk.st = "done" =>
        /\ ~lk.out.raised
        /\ lk.session_uuid = "" => (~lk.out.looked_up /\ lk.out.ret = None)
        /\ lk.session_uuid # "" =>
              /\ lk.out.looked_up
              /\ IF /\ lk.session_uuid \in DOMAIN lk.db
                    /\ lk.db[lk.session_uuid] # <<>>
                    /\ lk.fault = "none"
                 THEN lk.out.ret = Some(lk.db[lk.session_uuid])
                 ELSE lk.out.ret = None

\* a session with two documents was resolved, and so was a lookup that raised
C16_Witness_TwoDocuments ==
    /\ lk.st = "done"
    /\ lk.fault = "none"
    /\ ~lk.out.ret.none
    /\ Len(lk.out.ret.list) = 2

C16_Witness_LookupRaised ==
    /\ lk.st = "done"
    /\ lk.fault = "get_session"
    /\ lk.session_uuid \in DOMAIN lk.db
    /\ lk.db[lk.session_uuid] # <<>>
    /\ lk.out.ret = None

\* C17: filter precedence. With a session scope the filter given to the store
\* is exactly the scope (equality on the one id, in-set on several) and no
\* filter is extracted from the question, whatever the question names;
\* extraction is attempted only without a scope.
C17_FilterPrecedence ==
    sres.st = "done" =>
        IF sres.sdf # <<>>
        THEN /\ ~sres.extracted
             /\ DOMAIN sres.filter = {"uuid_filename"}
             /\ sres.filter["uuid_filename"] =
                   IF Len(sres.sdf) = 1 THEN Str(sres.sdf[1]) ELSE InSet(sres.sdf)
        ELSE sres.extracted

\* a scoped search for a question that names a file type
C17_Witness_ScopedWithKeywords ==
    /\ sres.st = "done"
    /\ Len(sres.sdf) = 2
    /\ sres.keywords
    /\ sres.out.results # <<>>

\* the number of events of the given type and message
CountEvents(es, type, msg) ==
    Cardinality({i \in DOMAIN es : es[i].type = type /\ es[i].msg = msg})

\* C18: retrieval retry. A request makes at most two hybrid searches; the
\* second is made only after the first failed with a rate-limit-shaped error
\* and after the fixed wait, with the same question, k and scope; a second
\* failure, or a first failure of another kind, ends the stream with an error
\* and no further search.
C18_RetrievalRetry ==
    LET ss == cnt.searches
    IN  /\ Len(ss) <= 2
        /\ CountEvents(events, "warning", "retrying") <= 1
        /\ Len(ss) = 2 =>
              CountEvents(events, "warning", "retrying") = 1
        /\ Len(ss) = 2 =>
              /\ ss[1].raised /\ ss[1].kind = "rate_limit"
              /\ ss[2].at >= ss[1].at + retry_backoff
              /\ ss[2].k = ss[1].k
              /\ ss[2].sdf = ss[1].sdf
              /\ ss[2].keywords = ss[1].keywords
        /\ (/\ Len(ss) >= 1
            /\ ss[Len(ss)].raised
            /\ (Len(ss) = 2 \/ ss[Len(ss)].kind # "rate_limit")) =>
              /\ pc = "done"
              /\ events[Len(events)].type = "error"

\* the first search hit a rate limit, the second succeeded and the answer
\* was streamed to its end
C18_Witness_RetriedThenStreamed ==
    /\ pc = "done"
    /\ Len(cnt.searches) = 2
    /\ ~cnt.searches[2].raised
    /\ events[Len(events)].type = "done"

\* both searches hit a rate limit
C18_Witness_SecondFailure ==
    /\ pc = "done"
    /\ Len(cnt.searches) = 2
    /\ cnt.searches[2].raised
    /\ cnt.searches[2].kind = "rate_limit"

\* C19: no mid-stream retry. The provider's stream is started at most once
\* per request. When it fails with a rate-limit or quota error, the request
\* ends with that one error event: the text still in the buffer is not sent
\* (every response sent is a complete sentence with its trailing space), and
\* neither sources nor done is sent.
C19_NoMidStreamRetry ==
    /\ cnt.streams <= 1
    /\ (sg.st = "failed" /\ events[Len(events)].msg = "rate_limit") =>
          /\ pc = "done"
          /\ cnt.streams = 1
          /\ CountEvents(events, "error", "rate_limit") = 1
          /\ \A i \in 1..(Len(events) - 1) :
                /\ events[i].type \in {"warning", "response"}
                /\ events[i].type = "response" =>
                      events[i].text[Len(events[i].text)] = " "

\* the provider failed with a rate limit after a sentence had been sent and
\* while the start of the next one was in the buffer
C19_Witness_BufferDropped ==
    /\ sg.st = "failed"
    /\ events[Len(events)].msg = "rate_limit"
    /\ cnt.streams = 1
    /\ CountEvents(events, "response", "") = 1
    /\ sg.buffer # <<>>
    /\ sg.pos < Len(sg.text)

(***************************************************************************)
(* SpecAdd: add_documents (vector_store.py lines 69-123).                  *)
(*                                                                         *)
(* A text is the document it was cut from, or "" for a text that is blank  *)
(* (text.strip() is empty). Each call of the index's add_texts is a step:  *)
(* it inserts its whole batch or raises and inserts nothing.               *)
(***************************************************************************)
\* settings.VECTOR_STORE_BATCH_SIZE (10 by default), and the longest input
batch_size == 2
MaxTexts == 5

max_retries == 3
retry_delay == 1

AddTextsInputs == SeqsUpTo({"", "A", "B"}, MaxTexts)

\* a slip: the blank texts are not filtered out
filtered_texts_unfiltered(batch_texts) == batch_texts

\* lines 91-96: the texts of the batch that are not blank
filtered_texts(batch_texts) == SelectSeqBy(batch_texts, {"A", "B"})

\* texts[i:i+batch_size], i counted from 0
batch_at(texts, i) == SubSeq(texts, i + 1, Min(i + batch_size, Len(texts)))

RECURSIVE skip_blank_batches(_, _)
\* lines 86-93: the start of the first batch from i on that holds a text to
\* insert, or the end of the range
skip_blank_batches(texts, i) ==
    IF i >= Len(texts) THEN i
    ELSE IF filtered_texts(batch_at(texts, i)) = <<>>
         THEN skip_blank_batches(texts, i + batch_size)
         ELSE i

RECURSIVE add_texts(_, _)
\* Chroma.add_texts: the chunks are appended in the order given
add_texts(st, txts) ==
    IF txts = <<>> THEN st
    ELSE add_texts(Append(st, NewChunk(st, Head(txts), 20)), Tail(txts))

AddInit ==
    /\ \E texts \in AddTextsInputs :
          ad = [st |-> "in", texts |-> texts, i |-> 0, attempt |-> 0, wake |-> 0,
                ret |-> "none", tries |-> <<>>]
    /\ store = <<>>
    /\ sres = [st |-> "off"]
    /\ LimiterOff
    /\ PackOff
    /\ SegOff
    /\ GenOff
    /\ MoreOff
    /\ RankOff
    /\ LookupOff
    /\ FinOff

\* the loop moves to the next batch to insert, or returns True after the last
NextBatch(a, i) ==
    LET j == skip_blank_batches(a.texts, i)
    IN  IF j >= Len(a.texts)
        THEN [a EXCEPT !.st = "done", !.ret = "True", !.i = j, !.attempt = 0]
        ELSE [a EXCEPT !.st = "batch", !.i = j, !.attempt = 0]

\* lines 71-86: the call, up to the first add_texts
AddDocuments ==
    /\ ad.st = "in"
    /\ ad' = IF ad.texts = <<>>
             THEN [ad EXCEPT !.st = "done", !.ret = "False"]
             ELSE NextBatch(ad, 0)
    /\ UNCHANGED <<now, store, notAdd>>

\* lines 98-113: one add_texts call for the batch at i, which succeeds or raises
AddBatch ==
    /\ ad.st = "batch"
    /\ LET a == [ad EXCEPT !.tries = Append(@, [i |-> ad.i, at |-> now])]
       IN  \E ok \in BOOLEAN :
              IF ok
              THEN /\ store' = add_texts(store, filtered_texts(batch_at(ad.texts, ad.i)))
                   /\ ad' = NextBatch(a, ad.i + batch_size)
              ELSE /\ store' = store
                   /\ ad' = IF ad.attempt < max_retries - 1
                            THEN [a EXCEPT !.st = "sleeping",
                                           !.wake = now + retry_delay,
                                           !.attempt = @ + 1]
                            ELSE [a EXCEPT !.st = "done", !.ret = "raised"]
    /\ UNCHANGED <<now, notAdd>>

\* line 110: the sleep before the retry is over
AddRetryWake ==
    /\ ad.st = "sleeping"
    /\ now >= ad.wake
    /\ ad' = [ad EXCEPT !.st = "batch"]
    /\ UNCHANGED <<now, store, notAdd>>

AddTick ==
    /\ ad.st = "sleeping"
    /\ now < ad.wake
    /\ now' = now + 1
    /\ UNCHANGED <<ad, store, notAdd>>

AddNext == AddDocuments \/ AddBatch \/ AddRetryWake \/ AddTick

SpecAdd == AddInit /\ [][AddNext]_vars

\* the documents of the stored chunks, in insertion order
StoredTexts == [i \in DOMAIN store |-> store[i].metadata.uuid_filename]

\* the add_texts calls made for the batch at i
TriesOf(i) == {n \in DOMAIN ad.tries : ad.tries[n].i = i}

\* C20: batched insert with retry. An empty text list returns False and
\* leaves the store alone. Otherwise the non-blank texts are inserted batch
\* by batch in input order; a batch is tried at most 3 times, with a delay
\* between tries; the first batch whose tries all fail ends the call with the
\* error, the later batches untouched; True is returned only when every
\* batch was inserted.
C20_BatchedInsert ==
    /\ \A n \in DOMAIN ad.tries :
          /\ Cardinality(TriesOf(ad.tries[n].i)) <= max_retries
          /\ n > 1 =>
                \/ ad.tries[n].i > ad.tries[n - 1].i
                \/ /\ ad.tries[n].i = ad.tries[n - 1].i
                   /\ ad.tries[n].at >= ad.tries[n - 1].at + retry_delay
    /\ \E b \in 0..Len(ad.texts) :
          StoredTexts = SelectSeqBy(SubSeq(ad.texts, 1, Min(b * batch_size, Len(ad.texts))),
                                    {"A", "B"})
    /\ ad.st = "done" =>
          /\ ad.texts = <<>> <=> ad.ret = "False"
          /\ ad.ret = "False" => (store = <<>> /\ ad.tries = <<>>)
          /\ ad.ret = "True" => StoredTexts = SelectSeqBy(ad.texts, {"A", "B"})
          /\ ad.ret = "raised" =>
                /\ Cardinality(TriesOf(ad.tries[Len(ad.tries)].i)) = max_retries
                /\ StoredTexts = SelectSeqBy(SubSeq(ad.texts, 1, ad.tries[Len(ad.tries)].i),
                                             {"A", "B"})

\* the first batch went in at its third try, a blank text was left out, and
\* the call returned True after a later batch
C20_Witness_ThirdTry ==
    /\ ad.st = "done"
    /\ ad.ret = "True"
    /\ Cardinality(TriesOf(0)) = 3
    /\ Len(ad.tries) >= 4
    /\ Len(store) < Len(ad.texts)

\* the second batch failed three times after the first was inserted
C20_Witness_SecondBatchFailed ==
    /\ ad.st = "done"
    /\ ad.ret = "raised"
    /\ store # <<>>
    /\ Len(store) < Len(SelectSeqBy(ad.texts, {"A", "B"}))

(***************************************************************************)
(* SpecConfig: a RateLimiter of any configuration, max_calls = 0 and       *)
(* period = 0 included, driven by any sequence of add_call, can_make_call, *)
(* time_until_available and clock advances.                                *)
(***************************************************************************)
\* __init__: the configuration and an empty timestamp list
RateLimiter(max_calls, period) ==
    [max_calls |-> max_calls, period |-> period, calls |-> <<>>]

\* _cleanup_old_calls of the instance self at time t
RateLimiter_cleanup_old_calls(self, t) ==
    [self EXCEPT !.calls =
        SelectSeqBy(self.calls, {c \in Range(self.calls) : t - c < self.period})]

\* can_make_call of the instance self at time t
RateLimiter_can_make_call(self, t) ==
    LET s1 == RateLimiter_cleanup_old_calls(self, t)
    IN  [self |-> s1, raised |-> FALSE, ret |-> Len(s1.calls) < s1.max_calls]

\* add_call of the instance self at time t
RateLimiter_add_call(self, t) == [self EXCEPT !.calls = Append(@, t)]

\* time_until_available of the instance self at time t; min() of an empty
\* list raises ValueError
RateLimiter_time_until_available(self, t) ==
    LET c == RateLimiter_can_make_call(self, t)
        s2 == RateLimiter_cleanup_old_calls(c.self, t)
    IN  IF c.ret THEN [self |-> c.self, raised |-> FALSE, ret |-> 0]
        ELSE IF s2.calls = <<>> THEN [self |-> s2, raised |-> TRUE, ret |-> 0]
        ELSE [self |-> s2, raised |-> FALSE,
              ret |-> SetMin(Range(s2.calls)) + s2.period - t]

ConfigInit ==
    /\ \E max_calls \in 0..MaxCalls, period \in 0..Period :
          lim = [st |-> "on", made |-> RateLimiter(max_calls, period),
                 self |-> RateLimiter(max_calls, period),
                 now |-> 0, adds |-> 0, last |-> NoOp]
    /\ calls = <<>>
    /\ now = 0
    /\ hist = <<>>
    /\ last = NoOp
    /\ SearchOff
    /\ PackOff
    /\ SegOff
    /\ GenOff
    /\ ExtraOff
    /\ TextOff
    /\ ProvOff

ConfigTick ==
    /\ lim.now < MaxTime
    /\ lim' = [lim EXCEPT !.now = @ + 1,
                          !.last = [op |-> "tick", ret |-> 0, raised |-> FALSE]]
    /\ UNCHANGED allButLim

ConfigAddCall ==
    /\ lim.adds < MaxAdds
    /\ lim' = [lim EXCEPT !.self = RateLimiter_add_call(lim.self, lim.now),
                          !.adds = @ + 1,
                          !.last = [op |-> "add_call", ret |-> 0, raised |-> FALSE]]
    /\ UNCHANGED allButLim

ConfigCanMakeCall ==
    /\ LET r == RateLimiter_can_make_call(lim.self, lim.now)
       IN  lim' = [lim EXCEPT !.self = r.self,
                              !.last = [op |-> "can_make_call", ret |-> r.ret,
                                        raised |-> r.raised]]
    /\ UNCHANGED allButLim

ConfigTimeUntilAvailable ==
    /\ LET r == RateLimiter_time_until_available(lim.self, lim.now)
       IN  lim' = [lim EXCEPT !.self = r.self,
                              !.last = [op |-> "time_until_available", ret |-> r.ret,
                                        raised |-> r.raised]]
    /\ UNCHANGED allButLim

ConfigNext ==
    \/ ConfigTick
    \/ ConfigAddCall
    \/ ConfigCanMakeCall
    \/ ConfigTimeUntilAvailable

SpecConfig == ConfigInit /\ [][ConfigNext]_vars

\* C21: the rate gate never errors: in every reachable state of a limiter of
\* any configuration (max_calls = 0 included), can_make_call() and
\* time_until_available() return a value, and they change nothing of the
\* instance but the timestamp list.
C21_GateNeverErrors ==
    /\ ~lim.last.raised
    /\ lim.self.max_calls = lim.made.max_calls
    /\ lim.self.period = lim.made.period

\* C22: admission ordering. A request that finds the gate closed emits the
\* wait warning before any other event and sleeps without having recorded a
\* call; the add_call() record of a request is made immediately before the
\* provider is invoked, so while the request has not yet resolved its scope
\* (it pauses for the token handler, or is about to look up the session's
\* documents) it has put no record on the limiter.
C22_AdmissionOrdering ==
    /\ pc = "admit_sleep" =>
          /\ events = <<Warning("rate_limit_wait")>>
          /\ cnt.adds = 0
    /\ pc \in {"token_sleep", "scope"} => cnt.adds = 0

LabelledLen(result, n) == label_overhead + NameLen(result.metadata.filename) + n

\* C24: context packing keeps a prefix. The parts of the context are the
\* labelled texts of the first m re-ranked results, in rank order, for some
\* m: each content is kept whole up to 500 characters and cut to 500
\* characters plus the ellipsis beyond; the parts together fit the budget,
\* and if a result is left out then result m + 1 did not fit the remaining
\* budget, whatever follows it.
C24_PackingKeepsPrefix ==
    pk.st = "out" =>
        LET parts == pk.out.parts
            m == Len(parts)
        IN  /\ m <= Len(pk.results)
            /\ \A i \in 1..m :
                  LET n == pk.results[i].content.len
                  IN  /\ n <= per_chunk_cap => parts[i] = LabelledLen(pk.results[i], n)
                      /\ n > per_chunk_cap =>
                            parts[i] = LabelledLen(pk.results[i],
                                                   per_chunk_cap + ellipsis_len)
            /\ SumSeq(parts) <= max_context_length
            /\ m < Len(pk.results) =>
                  SumSeq(parts)
                  + LabelledLen(pk.results[m + 1],
                                Min(pk.results[m + 1].content.len,
                                    per_chunk_cap + ellipsis_len))
                  > max_context_length

\* two chunks were placed, one of them cut; the third did not fit, and the
\* fourth, which would have fitted the remaining budget, was left out too
C24_Witness_LaterChunkWouldFit ==
    /\ pk.st = "out"
    /\ Len(pk.results) = 4
    /\ Len(pk.out.parts) = 2
    /\ pk.results[1].content.len > per_chunk_cap
    /\ SumSeq(pk.out.parts) + LabelledLen(pk.results[4], pk.results[4].content.len)
          <= max_context_length

(***************************************************************************)
(* SpecText: _re_rank_results on texts. The question and the contents are  *)
(* sequences of one-character strings; the matches that Rescore adds up    *)
(* are counted here as the code counts them.                               *)
(***************************************************************************)
\* str.lower()
lower(s) ==
    [i \in DOMAIN s |-> IF s[i] = "A" THEN "a" ELSE IF s[i] = "B" THEN "b" ELSE s[i]]

RECURSIVE split_from(_, _)
\* str.split() from the left: word is the token being read
split_from(s, word) ==
    IF s = <<>> THEN (IF word = <<>> THEN <<>> ELSE <<word>>)
    ELSE IF Head(s) \in Whitespace
         THEN (IF word = <<>> THEN <<>> ELSE <<word>>) \o split_from(Tail(s), <<>>)
         ELSE split_from(Tail(s), Append(word, Head(s)))

\* str.split(): the maximal runs of non-whitespace characters
split(s) == split_from(s, <<>>)

\* term in content, for strings: term occurs as a substring
contains(content, term) ==
    \E i \in 0..(Len(content) - Len(term)) :
        SubSeq(content, i + 1, i + Len(term)) = term

\* content.split("\n\n")[0] if "\n\n" in content else content
first_para_of(content) ==
    LET breaks == {i \in 1..(Len(content) - 1) :
                      content[i] = "\n" /\ content[i + 1] = "\n"}
    IN  IF breaks = {} THEN content
        ELSE SubSeq(content, 1, SetMin(breaks) - 1)

\* lines 389-398: query_terms, keyword_matches and first_para_matches of one
\* result's text
count_matches(query, text) ==
    LET query_terms == Range(split(lower(query)))
        content == lower(text)
        first_para == first_para_of(content)
    IN  [len |-> Len(text),
         keyword_matches |->
            Cardinality({term \in query_terms : contains(content, term)}),
         first_para_matches |->
            Cardinality({term \in query_terms : contains(first_para, term)})]

\* _re_rank_results(results, query) for results that carry their text
re_rank_texts(results, query) ==
    re_rank_results([i \in DOMAIN results |->
        [results[i] EXCEPT !.content = count_matches(query, results[i].text)]])

Questions == {<<"a">>, <<"A", " ", "b">>, <<"b", " ", "b">>}
TextContents ==
    {<<"a", "b">>, <<"b", " ", "A">>, <<"b", "\n", "\n", "a">>, <<"c">>}
TextScores == {40, 90}
TextResults ==
    {[text |-> t, content |-> [len |-> Len(t)], score |-> s, id |-> 0] :
        t \in TextContents, s \in TextScores}

TextInit ==
    /\ \E query \in Questions, rs \in SeqsUpTo(TextResults, MaxRankChunks) :
          tx = [st |-> "in", query |-> query,
                results |-> [i \in DOMAIN rs |-> [rs[i] EXCEPT !.id = i]]]
    /\ LimiterOff
    /\ SearchOff
    /\ PackOff
    /\ SegOff
    /\ GenOff
    /\ ExtraOff
    /\ ConfigOff
    /\ ProvOff

\* line 520: search_results = self._re_rank_results(search_results, question)
ReRank ==
    /\ tx.st = "in"
    /\ tx' = [st |-> "done", query |-> tx.query, results |-> tx.results,
              out |-> re_rank_texts(tx.results, tx.query)]
    /\ UNCHANGED allButTx

TextNext == ReRank

SpecText == TextInit /\ [][TextNext]_vars

\* the number of distinct tokens of the question that are tokens of text,
\* case-insensitively
TokenOverlap(query, text) ==
    Cardinality(Range(split(lower(query))) \cap Range(split(lower(text))))

\* C25: the re-ranking formula. Each result's score becomes
\* min(1.0, raw + 0.05 * a + 0.10 * b), a the number of distinct question
\* tokens that are tokens of the chunk and b the number that are tokens of
\* its first paragraph (case-insensitive token intersection); the answer is
\* a permutation of the input in descending order of that score.
C25_ReRankFormula ==
    tx.st = "done" =>
        /\ Len(tx.out) = Len(tx.results)
        /\ {tx.out[i].id : i \in DOMAIN tx.out} = DOMAIN tx.results
        /\ \A i \in DOMAIN tx.out :
              LET given == tx.results[tx.out[i].id]
                  a == TokenOverlap(tx.query, given.text)
                  b == TokenOverlap(tx.query, first_para_of(given.text))
              IN  /\ tx.out[i].text = given.text
                  /\ tx.out[i].score = Min(100, given.score + 5 * a + 10 * b)
        /\ \A i, j \in DOMAIN tx.out : i < j => tx.out[i].score >= tx.out[j].score

\* a query that the search in sres issued was failed by the index
SomeQueryFailed ==
    /\ sres.out.queried
    /\ IF "uuid_filename" \in DOMAIN sres.filter /\ sres.filter["uuid_filename"].tag = "in"
       THEN \E d \in Range(sres.filter["uuid_filename"].v) : d \in sres.fault.bad
       ELSE QueryFails(sres.filter, sres.fault)

\* C26: store failures during a search are propagated, not masked. If the
\* index fails on any query of a search, one of the per-document queries of
\* an in-set filter included, the search raises to its caller instead of
\* returning a partial or empty list.
C26_FailuresPropagated ==
    (sres.st = "done" /\ SomeQueryFailed) => sres.out.raised

\* the chunks of the store that belong to the documents of the scope
ScopedChunks(scope) ==
    {i \in DOMAIN store : store[i].metadata.uuid_filename \in Range(scope)}

\* the raw distances of a result list, in order
DistancesOf(results) == [i \in DOMAIN results |-> store[results[i].id].dist]

\* C27: the in-set merge equals a true in-set query. For a scope of two
\* different document ids and an index that does not fail, the search
\* returns min(k, number of scoped chunks) different chunks, all of the
\* scope, nearest first, and no scoped chunk left out is nearer than one
\* returned; with the ids in the other order the distances returned are the
\* same.
C27_InSetMerge ==
    (/\ sres.st = "done"
     /\ Len(sres.sdf) = 2
     /\ sres.sdf[1] # sres.sdf[2]
     /\ sres.fault = NoFault
     /\ store # <<>>) =>
        LET rs == sres.out.results
            ids == {rs[i].id : i \in DOMAIN rs}
            scoped == ScopedChunks(sres.sdf)
            swapped == similarity_search(store, sres.k,
                          Dict1("uuid_filename", InSet(<<sres.sdf[2], sres.sdf[1]>>)),
                          NoFault)
        IN  /\ ~sres.out.raised
            /\ Len(rs) = Min(sres.k, Cardinality(scoped))
            /\ Cardinality(ids) = Len(rs)
            /\ ids \subseteq scoped
            /\ \A i, j \in DOMAIN rs :
                  i < j => store[rs[i].id].dist <= store[rs[j].id].dist
            /\ \A c \in scoped \ ids : \A i \in ids : store[c].dist >= store[i].dist
            /\ DistancesOf(swapped.results) = DistancesOf(rs)

\* both documents of the scope hold chunks, more than k together; the second
\* document's chunk is nearer than the first's, and both are returned
C27_Witness_MergedAcrossDocuments ==
    /\ sres.st = "done"
    /\ Len(sres.sdf) = 2
    /\ sres.sdf[1] # sres.sdf[2]
    /\ sres.fault = NoFault
    /\ Cardinality(ScopedChunks(sres.sdf)) > sres.k
    /\ Len(sres.out.results) = 2
    /\ sres.out.results[1].metadata.uuid_filename = sres.sdf[2]
    /\ sres.out.results[2].metadata.uuid_filename = sres.sdf[1]
    /\ store[sres.out.results[1].id].dist < store[sres.out.results[2].id].dist

(***************************************************************************)
(* SpecProv: several generate_response requests and set_provider calls on  *)
(* the one EnhancedRAGService. Of a request only the provider selection    *)
(* (lines 445-453), the suspension that follows (scope lookup, waits,      *)
(* retrieval) and the model obtained at line 563 are kept.                 *)
(***************************************************************************)
ProvIdle == [pc |-> "idle", requested |-> "none", provider |-> "", model |-> ""]

ProvInit ==
    /\ \E p \in {"gemini", "ollama"}, g \in BOOLEAN :
          prov = [st |-> "on", current_provider |-> p, gemini_model |-> g,
                  ollama_model |-> TRUE, reqs |-> [i \in Requests |-> ProvIdle]]
    /\ LimiterOff
    /\ SearchOff
    /\ PackOff
    /\ SegOff
    /\ GenOff
    /\ ExtraOff
    /\ ConfigOff
    /\ TextOff

\* lines 445-453: the local provider is forced to gemini and written to
\* self.current_provider; the request then suspends
ProvStart(i) ==
    /\ prov.reqs[i].pc = "idle"
    /\ \E requested \in {"none", "gemini", "ollama"} :
          prov' = [prov EXCEPT !.current_provider = "gemini",
                               !.reqs[i] = [pc |-> "suspended", requested |-> requested,
                                            provider |-> "gemini", model |-> ""]]
    /\ UNCHANGED allButProv

\* set_provider(provider) with a valid provider, called between two steps of
\* the requests
SetProvider ==
    /\ \E provider \in {"ollama", "gemini"} :
          prov' = [prov EXCEPT !.current_provider = provider]
    /\ UNCHANGED allButProv

\* line 563: model = self.get_current_model(); ValueError ends the request
\* with an error event that reports the local provider
ProvGetModel(i) ==
    /\ prov.reqs[i].pc = "suspended"
    /\ LET model == get_current_model(prov)
       IN  prov' = [prov EXCEPT !.reqs[i].pc = IF model.raised THEN "failed"
                                               ELSE "streaming",
                                !.reqs[i].model = IF model.raised THEN "raised"
                                                  ELSE model.model]
    /\ UNCHANGED allButProv

\* lines 606-674: the stream of the model obtained ends
ProvStreamEnd(i) ==
    /\ prov.reqs[i].pc = "streaming"
    /\ prov' = [prov EXCEPT !.reqs[i].pc = "done"]
    /\ UNCHANGED allButProv

ProvNext ==
    \/ \E i \in Requests : ProvStart(i)
    \/ SetProvider
    \/ \E i \in Requests : ProvGetModel(i)
    \/ \E i \in Requests : ProvStreamEnd(i)

SpecProv == ProvInit /\ [][ProvNext]_vars

\* C28: requests share no mutable per-request state. The model a request
\* streams from is the one of the provider it selected at its start,
\* whatever generate_response and set_provider calls ran while it was
\* suspended: it is the model, or the failure, that get_current_model gives
\* for the request's own provider.
C28_NoSharedRequestState ==
    \A i \in Requests :
        prov.reqs[i].pc \in {"streaming", "failed", "done"} =>
            LET own == get_current_model(
                          [prov EXCEPT !.current_provider = prov.reqs[i].provider])
            IN  prov.reqs[i].model = IF own.raised THEN "raised" ELSE own.model

(***************************************************************************)
(* SpecLive: the request of Spec on an event loop that keeps running it:   *)
(* a sleep ends once its time has passed, every store call returns or      *)
(* raises, and the provider's stream delivers its next chunk, ends or      *)
(* raises. A step of Next is possible in every state but those with        *)
(* pc = "done".                                                            *)
(***************************************************************************)
Positions ==
    {"idle", "admit_sleep", "token_sleep", "scope", "search", "extract_sleep",
     "retry_sleep", "stream", "done"}

\* the steps the event loop takes by itself: the clock advances while the
\* request sleeps, a sleep that is over ends, and the request runs on from
\* a place where it awaits nothing outside
Resumed == GenAdmitWake \/ GenTokenWake \/ GenScope \/ GenRetryWake \/ GenTick

\* the steps that rest on the outside: the request is made, the gate, the
\* provider's extraction and the store answer (by returning or by raising),
\* and the provider's stream ends or raises after finitely many chunks. The
\* request leaves the place where it waited for them
Answered ==
    /\ pc \in {"idle", "search", "extract_sleep", "stream"}
    /\ pc' \in Positions \ {pc}

SpecLive == Spec /\ WF_vars(Resumed) /\ WF_pc(Answered)

\* how many of the request's waits were of this kind
CountWaits(kind) == Cardinality({i \in DOMAIN cnt.waits : cnt.waits[i] = kind})

\* the request has ended, and its last event is done or an error
Terminated ==
    /\ pc = "done"
    /\ events # <<>>
    /\ events[Len(events)].type \in {"done", "error"}

\* the waits the request may perform by anyone's count: one admission wait,
\* one token-limit pause, one retrieval backoff, and a pacing delay for no
\* more than each response event
ListedWaits ==
    /\ CountWaits("admission") <= 1
    /\ CountWaits("token") <= 1
    /\ CountWaits("backoff") <= 1
    /\ CountWaits("pacing") <= CountEvents(events, "response", "")

\* C29 as stated: every request terminates, and the waits it performs are
\* at most one admission wait, one token-limit pause, one retrieval backoff
\* and one pacing delay per emitted sentence, and no other.
C29_Original ==
    /\ (pc # "idle") ~> Terminated
    /\ [](ListedWaits /\ CountWaits("extract") = 0)

\* C29: every request terminates: once started, the stream eventually emits
\* a terminal event (done or error) and ends. Its waits are bounded: at most
\* one admission wait, one token-limit pause, one retrieval backoff, one
\* pacing delay per emitted sentence, and one wait at the rate gate before
\* each of the at most two hybrid searches.
C29_Termination ==
    /\ (pc # "idle") ~> Terminated
    /\ [](/\ ListedWaits
          /\ CountWaits("extract") <= Len(cnt.searches) + 1
          /\ CountWaits("extract") <= 2
          /\ Len(cnt.searches) <= 2)

\* the request waited at the gate before its search, backed off after the
\* search failed, streamed two sentences and ended with done
C29_Witness_WaitedAndDone ==
    /\ Terminated
    /\ events[Len(events)].type = "done"
    /\ CountWaits("extract") = 1
    /\ CountWaits("backoff") = 1
    /\ CountEvents(events, "response", "") = 2

\* C30: the conversion from distance to similarity preserves the ranking. Of
\* two results the one with the smaller raw distance has a similarity at
\* least as large, so the list, which the index returns nearest first, is in
\* non-increasing order of similarity before it is re-ranked.
C30_SimilarityMonotone ==
    rk.st = "done" =>
        /\ \A i, j \in DOMAIN rk.raw :
              store[rk.raw[i].id].dist <= store[rk.raw[j].id].dist =>
                  rk.raw[i].score >= rk.raw[j].score
        /\ \A i, j \in DOMAIN rk.raw : i < j => rk.raw[i].score >= rk.raw[j].score

====
